---- MODULE Spec2Model ----
(***************************************************************************)
(* Client-side transport (Network), input sampler (InputManager) and       *)
(* prediction engine (Game) of the arena client.                           *)
(*                                                                         *)
(* Numbers: positions, movement components, sines and cosines are          *)
(* fixed-point integers in thousandths (Scale); durations and clock        *)
(* readings are integer milliseconds; angles are integer milliradians.     *)
(***************************************************************************)
EXTENDS Integers, Sequences, FiniteSets, TLC

(***************************************************************************)
(* Bounds of the model.                                                    *)
(***************************************************************************)
MaxSockets == 3        \* WebSocket objects alive at once that the model tracks
MaxFailures == 6       \* consecutive closures counted since the last open (saturating)
MaxHandlers == 3       \* registrations in the handler table
MaxTime == 32          \* last reading of the monotonic clock, ms
MaxCalls == 4          \* send / sendThrottled calls made by the callers
MaxAbsent == 2         \* consecutive state broadcasts counted as missed by an entity

(***************************************************************************)
(* Program constants.                                                      *)
(***************************************************************************)
RECONNECT_FLOOR == 1000
RECONNECT_CEILING == 10000
MIN_SEND_INTERVAL == 16

Min(a, b) == IF a < b THEN a ELSE b
Max(a, b) == IF a > b THEN a ELSE b

(***************************************************************************)
(* State.                                                                  *)
(***************************************************************************)
VARIABLES
  \* Network
  sockets,         \* readyState of every WebSocket object not yet collected, in creation order
  ws,              \* this.ws: index into sockets of the current link, 0 for null
  timers,          \* pending setTimeout(() => this.connect(), d) callbacks: their delays d
  reconnectDelay,  \* this.reconnectDelay
  handlers,        \* this.handlers: tag -> sequence of handlers
  lastSendTime,    \* this.lastSendTime
  \* environment
  now,             \* performance.now(), ms
  wire,            \* frames handed to WebSocket.send, oldest first
  throttledAt,     \* clock readings at which a frame of sendThrottled went on the link
  \* observation of the run
  failures,        \* closures since the last successful open (saturating at MaxFailures)
  lastDispatch,    \* the last frame given to OnMessage and what onmessage did with it
  prevDispatch,    \* the frame given to OnMessage before that one
  lastCall,        \* the last send / sendThrottled call and the link state it met
  \* InputManager
  input,           \* the InputManager object: its fields, by name
  \* Game
  myId,            \* this.myId ("" until welcome)
  players,         \* this.players: id -> entity (isLocal, the state last handed to it)
  serverStates,    \* this.serverStates: id -> latest snapshot
  arenaRadius,     \* this.arenaRadius, thousandths
  predictedX, predictedY, predictedZ, predictedRotation, predictedYVel,
  pendingInputs,   \* this.pendingInputs: InputRecords, oldest first
  inputSeq,        \* this.inputSeq
  lastServerAction,
  lastReconcile,   \* observation: the reconcileWithServer call that has just run, if any,
                   \* the respawn message that has just been handled, or the states
                   \* the frame that has just run handed to the entities
  ledger           \* observation: inputSeq at the last local respawn; per intent, the
                   \* presses made on the devices and the send calls made for it

linkVars == <<sockets, ws, timers, reconnectDelay, failures>>
dispatchVars == <<handlers, lastDispatch, prevDispatch>>
sendVars == <<lastSendTime, now, wire, throttledAt, lastCall>>
poseVars == <<predictedX, predictedY, predictedZ, predictedRotation, predictedYVel>>
gameVars == <<myId, players, serverStates, arenaRadius, poseVars, pendingInputs, inputSeq,
              lastServerAction, lastReconcile>>
appVars == <<input, gameVars, ledger>>
vars == <<sockets, ws, timers, reconnectDelay, failures, handlers, lastDispatch,
          prevDispatch, lastSendTime, now, wire, throttledAt, lastCall, input, gameVars,
          ledger>>

(***************************************************************************)
(* Network: link life cycle.                                               *)
(***************************************************************************)
ReadyStates == {"CONNECTING", "OPEN", "CLOSING", "CLOSED"}

\* readyState of this.ws ("NONE" when this.ws is null)
ReadyState == IF ws = 0 THEN "NONE" ELSE sockets[ws]

\* A WebSocket object that is CLOSED and no longer referenced by this.ws fires no
\* further event and is dropped from the model.
Collect(ss) == SelectSeq(ss, LAMBDA r : r # "CLOSED")

\* Network.connect: this.ws = new WebSocket(url). The object this.ws referred to
\* before is no longer referenced.
ConnectSockets(ss) == Append(Collect(ss), "CONNECTING")

\* WebSocket.close(): starts the closing handshake of a CONNECTING or OPEN socket,
\* does nothing on a CLOSING or CLOSED one.
CloseSocket(ss, i) ==
  IF i # 0 /\ ss[i] \in {"CONNECTING", "OPEN"} THEN [ss EXCEPT ![i] = "CLOSING"] ELSE ss

NextDelayUncapped(d) == d * 2

\* onclose: the delay the next closure will wait
NextDelay(d) == Min(d * 2, RECONNECT_CEILING)

ScheduledTwice(d) == <<d, d>>
ScheduledAfterDoubling(d) == <<Min(d * 2, RECONNECT_CEILING)>>
ScheduledBelowCeiling(d) == IF d < RECONNECT_CEILING THEN <<d>> ELSE <<>>

\* onclose: the setTimeout calls made, as the delays they are given
Scheduled(d) == <<d>>

\* ws.onopen of socket s
OnOpen(s) ==
  /\ s \in DOMAIN sockets
  /\ sockets[s] = "CONNECTING"
  /\ sockets' = [sockets EXCEPT ![s] = "OPEN"]
  /\ reconnectDelay' = RECONNECT_FLOOR
  /\ failures' = 0
  /\ UNCHANGED <<ws, timers>>
  /\ UNCHANGED dispatchVars
  /\ UNCHANGED sendVars
  /\ UNCHANGED appVars

\* ws.onerror of socket s, delivered while s is still alive: this.ws?.close()
OnError(s) ==
  /\ s \in DOMAIN sockets
  /\ sockets[s] # "CLOSED"
  /\ sockets' = CloseSocket(sockets, ws)
  /\ UNCHANGED <<ws, timers, reconnectDelay, failures>>
  /\ UNCHANGED dispatchVars
  /\ UNCHANGED sendVars
  /\ UNCHANGED appVars

\* The connection of socket s ends (failure to connect, server close, network loss,
\* or the end of a closing handshake): readyState becomes CLOSED, the error event is
\* fired when the connection failed (withError), then the close event.
OnClose(s, withError) ==
  /\ s \in DOMAIN sockets
  /\ sockets[s] # "CLOSED"
  /\ LET closed == [sockets EXCEPT ![s] = "CLOSED"]
     IN sockets' = IF withError THEN CloseSocket(closed, ws) ELSE closed
  /\ timers' = timers \o Scheduled(reconnectDelay)
  /\ reconnectDelay' = NextDelay(reconnectDelay)
  /\ failures' = Min(failures + 1, MaxFailures)
  /\ UNCHANGED ws
  /\ UNCHANGED dispatchVars
  /\ UNCHANGED sendVars
  /\ UNCHANGED appVars

\* A reconnect timer fires: () => this.connect()
TimerFire(i) ==
  /\ i \in DOMAIN timers
  /\ Len(Collect(sockets)) < MaxSockets
  /\ timers' = SubSeq(timers, 1, i - 1) \o SubSeq(timers, i + 1, Len(timers))
  /\ sockets' = ConnectSockets(sockets)
  /\ ws' = Len(ConnectSockets(sockets))
  /\ UNCHANGED <<reconnectDelay, failures>>
  /\ UNCHANGED dispatchVars
  /\ UNCHANGED sendVars
  /\ UNCHANGED appVars

(***************************************************************************)
(* Network: handler table and inbound dispatch.                            *)
(***************************************************************************)
Tags == {"state", "respawn"}            \* tags given to on()
HandlerIds == {"h1", "h2"}              \* callbacks given to on()

\* Inbound frames, by what their text holds: text that is no JSON, the JSON value
\* null, a JSON number, an object without a type field, an object with a type.
NoFrame == [kind |-> "none", type |-> "none"]
Frames ==
  {[kind |-> k, type |-> "none"] : k \in {"malformed", "null", "number", "untyped"}}
    \cup {[kind |-> "object", type |-> t] : t \in Tags \cup {"chat"}}

\* JSON.parse(event.data): throws on text that is no JSON
Parse(f) ==
  IF f.kind = "malformed" THEN [ok |-> FALSE, val |-> NoFrame] ELSE [ok |-> TRUE, val |-> f]

\* this.handlers.get(tag): undefined (here the empty list) for a tag never given to on()
Lookup(table, tag) == IF tag \in DOMAIN table THEN table[tag] ELSE <<>>

\* The registrations of tag, as (tag, position, callback) slots in list order
Slots(table, tag) ==
  [i \in 1..Len(Lookup(table, tag)) |-> [tag |-> tag, pos |-> i, h |-> Lookup(table, tag)[i]]]

CaughtNothing(what) == FALSE

\* Does the try { ... } catch { } of onmessage catch what is thrown inside it?
Caught(what) == TRUE

\* ws.onmessage: the slots invoked, and whether an exception leaves the callback.
\* throwAt is the position of the first handler that throws (0 or beyond the list:
\* none does); the loop ends at it.
Dispatch(table, f, throwAt) ==
  LET p == Parse(f) IN
  IF ~p.ok THEN [invoked |-> <<>>, escaped |-> ~Caught("parse")]
  ELSE IF p.val.kind = "null" THEN [invoked |-> <<>>, escaped |-> ~Caught("type")]
  ELSE LET slots == Slots(table, p.val.type)
           n == IF throwAt \in 1..Len(slots) THEN throwAt ELSE Len(slots)
       IN [invoked |-> SubSeq(slots, 1, n),
           escaped |-> throwAt \in 1..Len(slots) /\ ~Caught("handler")]

RegisterReplacing(table, tag, h) ==
  [t \in DOMAIN table \cup {tag} |-> IF t = tag THEN <<h>> ELSE table[t]]

\* Network.on(type, handler): the list of a tag is created on its first registration
Register(table, tag, h) ==
  IF tag \in DOMAIN table
  THEN [table EXCEPT ![tag] = Append(table[tag], h)]
  ELSE [t \in DOMAIN table \cup {tag} |-> IF t = tag THEN <<h>> ELSE table[t]]

RECURSIVE CountIn(_, _)
CountIn(table, tags) ==
  IF tags = {} THEN 0
  ELSE LET t == CHOOSE x \in tags : TRUE IN Len(table[t]) + CountIn(table, tags \ {t})

Registrations(table) == CountIn(table, DOMAIN table)

On(tag, h) ==
  /\ Registrations(handlers) < MaxHandlers
  /\ handlers' = Register(handlers, tag, h)
  /\ UNCHANGED <<lastDispatch, prevDispatch>>
  /\ UNCHANGED linkVars
  /\ UNCHANGED sendVars
  /\ UNCHANGED appVars

\* A frame arrives on socket s (frames are delivered on an OPEN socket, and on a
\* CLOSING one until its handshake ends): ws.onmessage
OnMessage(s, f, throwAt) ==
  /\ s \in DOMAIN sockets
  /\ sockets[s] \in {"OPEN", "CLOSING"}
  /\ lastDispatch' = [frame |-> f,
                      registered |-> Slots(handlers, f.type),
                      invoked |-> Dispatch(handlers, f, throwAt).invoked,
                      escaped |-> Dispatch(handlers, f, throwAt).escaped,
                      threw |-> throwAt \in 1..Len(Dispatch(handlers, f, throwAt).invoked)]
  /\ prevDispatch' = lastDispatch.frame
  /\ UNCHANGED handlers
  /\ UNCHANGED linkVars
  /\ UNCHANGED sendVars
  /\ UNCHANGED appVars

(***************************************************************************)
(* Network: outbound.                                                      *)
(***************************************************************************)
NoMsg == [type |-> "none", seq |-> 0, forward |-> 0, right |-> 0, rotation |-> 0, dt |-> 0]
NoCall == [op |-> "none", msg |-> NoMsg, id |-> 0, state |-> "NONE"]

\* An outbound message without payload, { type }
Msg(type) == [NoMsg EXCEPT !.type = type]

\* JSON.stringify(msg) handed to WebSocket.send: the frame put on the link. The
\* frame carries the message's fields; id and via record which call produced it.
Frame(msg, id, via) == [msg |-> msg, id |-> id, via |-> via]

TransmitsUnlessClosed(rs) == rs \notin {"CLOSED", "NONE"}

\* Network.send: if (this.ws?.readyState === WebSocket.OPEN) this.ws.send(...)
Transmits(rs) == rs = "OPEN"

SendFrames(w, rs, fr) == IF Transmits(rs) THEN Append(w, fr) ELSE w

\* Network.sendThrottled: now - this.lastSendTime >= MIN_SEND_INTERVAL
ThrottlePasses(t, last) == t - last >= MIN_SEND_INTERVAL

ThrottleStampStale(t, last) == last

\* Network.sendThrottled: this.lastSendTime after a call at time t
ThrottleStamp(t, last) == IF ThrottlePasses(t, last) THEN t ELSE last

\* The outbound side of Network as one value, so that a caller's calls compose
Out == [lastSendTime |-> lastSendTime, wire |-> wire, throttledAt |-> throttledAt,
        lastCall |-> lastCall]

\* Network.send(msg) at link state rs
NetSend(o, msg, rs) ==
  [o EXCEPT !.lastCall = [op |-> "send", msg |-> msg, id |-> o.lastCall.id + 1, state |-> rs],
            !.wire = SendFrames(o.wire, rs, Frame(msg, o.lastCall.id + 1, "send"))]

\* Network.sendThrottled(msg) at link state rs and clock reading t
NetSendThrottled(o, msg, rs, t) ==
  LET w == IF ThrottlePasses(t, o.lastSendTime)
           THEN SendFrames(o.wire, rs, Frame(msg, o.lastCall.id + 1, "sendThrottled"))
           ELSE o.wire
  IN [o EXCEPT !.lastCall = [op |-> "sendThrottled", msg |-> msg, id |-> o.lastCall.id + 1,
                             state |-> rs],
               !.lastSendTime = ThrottleStamp(t, o.lastSendTime),
               !.wire = w,
               !.throttledAt = IF Len(w) > Len(o.wire) THEN Append(o.throttledAt, t)
                               ELSE o.throttledAt]

\* The outbound side becomes o
SetOut(o) ==
  /\ lastSendTime' = o.lastSendTime
  /\ wire' = o.wire
  /\ throttledAt' = o.throttledAt
  /\ lastCall' = o.lastCall

\* A caller calls network.send(msg)
Send(msg) ==
  /\ SetOut(NetSend(Out, msg, ReadyState))
  /\ UNCHANGED now
  /\ UNCHANGED linkVars
  /\ UNCHANGED dispatchVars
  /\ UNCHANGED appVars

\* A caller calls network.sendThrottled(msg)
SendThrottled(msg) ==
  /\ SetOut(NetSendThrottled(Out, msg, ReadyState, now))
  /\ UNCHANGED now
  /\ UNCHANGED linkVars
  /\ UNCHANGED dispatchVars
  /\ UNCHANGED appVars

\* The monotonic clock advances by d ms
Advance(d) ==
  /\ now + d <= MaxTime
  /\ now' = now + d
  /\ UNCHANGED <<lastSendTime, wire, throttledAt, lastCall>>
  /\ UNCHANGED linkVars
  /\ UNCHANGED dispatchVars
  /\ UNCHANGED appVars

(***************************************************************************)
(* Field initialisers of InputManager and Game.                            *)
(***************************************************************************)
InputInit ==
  [keys |-> {}, rotationY |-> 0, moveForward |-> 0, moveRight |-> 0,
   pendingAttack |-> FALSE, pendingBlockStart |-> FALSE, pendingBlockEnd |-> FALSE,
   pendingJump |-> FALSE, pendingDodge |-> FALSE, isBlocking |-> FALSE,
   isPointerLocked |-> FALSE]

NoReconcile == [ran |-> FALSE, lastSeq |-> 0, action |-> "idle", before |-> <<>>,
                replayed |-> <<>>, respawn |-> <<>>, shown |-> <<>>]

IntentTypes == {"attack", "blockStart", "blockEnd", "jump", "dodge"}
NoLedger == [respawnSeq |-> 0, pressed |-> [t \in IntentTypes |-> 0],
             sent |-> [t \in IntentTypes |-> 0], absent |-> [i \in {} |-> 0]]

GameFieldsInit ==
  /\ myId = ""
  /\ players = [i \in {} |-> 0]
  /\ serverStates = [i \in {} |-> 0]
  /\ arenaRadius = 30 * (10 ^ 3)
  /\ predictedX = 0
  /\ predictedY = 0
  /\ predictedZ = 0
  /\ predictedRotation = 0
  /\ predictedYVel = 0
  /\ pendingInputs = <<>>
  /\ inputSeq = 0
  /\ lastServerAction = "idle"
  /\ lastReconcile = NoReconcile
  /\ ledger = NoLedger

(***************************************************************************)
(* Specifications of the transport.                                        *)
(***************************************************************************)
\* After new Network(url): the fields' initialisers, then connect()
NetworkInit ==
  /\ sockets = ConnectSockets(<<>>)
  /\ ws = 1
  /\ timers = <<>>
  /\ reconnectDelay = RECONNECT_FLOOR
  /\ lastSendTime = 0
  /\ now = 0
  /\ wire = <<>>
  /\ throttledAt = <<>>
  /\ failures = 0
  /\ lastDispatch = [frame |-> NoFrame, registered |-> <<>>, invoked |-> <<>>,
                     escaped |-> FALSE, threw |-> FALSE]
  /\ prevDispatch = NoFrame
  /\ lastCall = NoCall
  /\ input = InputInit
  /\ GameFieldsInit

\* A Network whose users have registered nothing yet
Init ==
  /\ NetworkInit
  /\ handlers = [t \in {} |-> <<>>]

LinkNext ==
  \/ \E s \in 1..MaxSockets : OnOpen(s)
  \/ \E s \in 1..MaxSockets : OnError(s)
  \/ \E s \in 1..MaxSockets, withError \in BOOLEAN : OnClose(s, withError)
  \/ \E i \in 1..MaxSockets : TimerFire(i)

\* The link and the inbound side
Next ==
  \/ LinkNext
  \/ \E tag \in Tags, h \in HandlerIds : On(tag, h)
  \/ \E s \in 1..MaxSockets, f \in Frames, throwAt \in 0..MaxHandlers : OnMessage(s, f, throwAt)

Spec == Init /\ [][Next]_vars

\* The platform delivers a due timer
FairSpec == Spec /\ WF_vars(\E i \in 1..MaxSockets : TimerFire(i))

\* The link and the outbound side
SendSteps == {8, 15, 16}

SendNext ==
  \/ LinkNext
  \/ lastCall.id < MaxCalls /\ Send(Msg("attack"))
  \/ lastCall.id < MaxCalls /\ SendThrottled(Msg("move"))
  \/ \E d \in SendSteps : Advance(d)

SendSpec == Init /\ [][SendNext]_vars

(***************************************************************************)
(* Properties of the transport.                                            *)
(***************************************************************************)
Alive(ss) == {i \in DOMAIN ss : ss[i] \in {"CONNECTING", "OPEN"}}
LinkClosed == ReadyState = "CLOSED"

\* A step in which a reconnect timer runs connect()
ConnectStep == Len(timers') < Len(timers)
\* A step in which a socket reaches CLOSED
ClosureStep ==
  \E s \in DOMAIN sockets :
    sockets[s] # "CLOSED" /\ s \in DOMAIN sockets' /\ sockets'[s] = "CLOSED"
\* A step in which a socket goes from CONNECTING to OPEN
OpenStep ==
  \E s \in DOMAIN sockets :
    sockets[s] = "CONNECTING" /\ s \in DOMAIN sockets' /\ sockets'[s] = "OPEN"

\* C1: in every reachable state at most one WebSocket is CONNECTING or OPEN, and
\* connect() is never started while the current link is CONNECTING or OPEN.
C1_SingleLink ==
  /\ [](Cardinality(Alive(sockets)) <= 1)
  /\ [][ConnectStep => ReadyState \notin {"CONNECTING", "OPEN"}]_vars

\* C1 witness: a link that was re-established twice after closures is connecting
C1_Witness == ReadyState = "CONNECTING" /\ failures = 2 /\ timers = <<>>

\* C2: a send call puts its frame on the link exactly when the link is OPEN at the
\* call and changes no Network state; a frame goes on the link only in the step of
\* the call that made it, so a message dropped by send is never transmitted later.
C2_SendIffOpen ==
  /\ [][(lastCall'.id # lastCall.id /\ lastCall'.op = "send") =>
          /\ wire' = IF ReadyState = "OPEN"
                     THEN Append(wire, Frame(lastCall'.msg, lastCall'.id, "send"))
                     ELSE wire
          /\ UNCHANGED <<sockets, ws, timers, reconnectDelay, handlers, lastSendTime>>]_vars
  /\ [][wire' # wire =>
          /\ lastCall'.id = lastCall.id + 1
          /\ Len(wire') = Len(wire) + 1
          /\ SubSeq(wire', 1, Len(wire)) = wire
          /\ wire'[Len(wire')].id = lastCall'.id]_vars

\* C2 witness: a send met a CLOSED link after an earlier frame had gone out; the
\* link is open again and the dropped message is not on it
C2_Witness ==
  /\ lastCall.op = "send" /\ lastCall.state = "CLOSED"
  /\ ReadyState = "OPEN"
  /\ Len(wire) = 1 /\ wire[1].id < lastCall.id

\* C3: any two frames transmitted through sendThrottled are at least
\* MIN_SEND_INTERVAL apart on the monotonic clock, and a sendThrottled call made
\* less than the interval after the last accepted one puts nothing on the link.
C3_ThrottleSpacing ==
  /\ [](\A i, j \in DOMAIN throttledAt :
          i < j => throttledAt[j] - throttledAt[i] >= 16)
  /\ [][(lastCall'.id # lastCall.id /\ lastCall'.op = "sendThrottled"
          /\ now - lastSendTime < 16) => wire' = wire]_vars

\* C3 witness: two frames went out through sendThrottled and a third call did not
C3_Witness == Len(throttledAt) = 2 /\ lastCall.id >= 3 /\ Len(wire) = 2

\* C4: the reconnect delay stays within [1000, 10000], decreases only in a step that
\* opens a link, and every open sets it to exactly 1000.
C4_BackoffRange ==
  /\ [](reconnectDelay >= 1000 /\ reconnectDelay <= 10000)
  /\ [][reconnectDelay' < reconnectDelay => OpenStep]_vars
  /\ [][OpenStep => reconnectDelay' = 1000]_vars

\* C4 witness: the delay has reached the ceiling after repeated closures
C4_Witness == reconnectDelay = 10000 /\ failures = MaxFailures /\ ReadyState = "CONNECTING"

\* The wait of the n-th consecutive closure since the last open: 1000, 2000, 4000,
\* 8000, 10000, 10000, ...
ExpectedWait(n) == IF n >= 5 THEN 10000 ELSE 1000 * (2 ^ (n - 1))

\* C5: every closure schedules exactly one connect() with the delay held at the
\* closure and only then doubles the delay (capped at 10000); the n-th consecutive
\* closure since the last open waits 1000, 2000, 4000, 8000, 10000, 10000, ...
C5_BackoffSchedule ==
  /\ [][ClosureStep =>
          /\ timers' = Append(timers, reconnectDelay)
          /\ reconnectDelay' = Min(reconnectDelay * 2, 10000)]_vars
  /\ [](Len(timers) <= 1)
  /\ [](timers # <<>> => timers[Len(timers)] = ExpectedWait(failures))

\* C5 witness: the sixth consecutive closure waits 10000 ms again
C5_Witness == timers = <<10000>> /\ failures = 6

\* C6: a closed link always has a reconnect pending, and with the timer delivered
\* fairly a closed link is always followed by a new connection attempt.
C6_NeverGiveUp ==
  /\ [](LinkClosed => timers # <<>>)
  /\ (LinkClosed ~> ReadyState = "CONNECTING")

\* C6 witness: the link is closed after three consecutive failed attempts
C6_Witness == LinkClosed /\ failures = 3 /\ timers # <<>>

\* C7: for an inbound message with tag T, every handler registered for T is invoked
\* exactly once in registration order, and no handler of another tag is invoked.
C7_AllHandlersInOrder ==
  lastDispatch.frame.kind = "object" => lastDispatch.invoked = lastDispatch.registered

\* C8: a frame that fails to deserialize invokes no handler, lets no exception leave
\* the callback, leaves link, backoff, timers and handler table unchanged, and the
\* frame after it is dispatched to its handlers as usual.
C8_MalformedDropped ==
  /\ [][(lastDispatch'.frame.kind = "malformed"
          /\ (lastDispatch' # lastDispatch \/ prevDispatch' # prevDispatch)) =>
          /\ lastDispatch'.invoked = <<>>
          /\ ~lastDispatch'.escaped
          /\ UNCHANGED <<sockets, ws, timers, reconnectDelay, handlers>>]_vars
  /\ []((prevDispatch.kind = "malformed" /\ lastDispatch.frame.kind = "object"
          /\ ~lastDispatch.threw) =>
          (lastDispatch.invoked = lastDispatch.registered /\ ~lastDispatch.escaped))

\* C8 witness: a typed frame right after a malformed one reached both of its handlers
C8_Witness ==
  /\ prevDispatch.kind = "malformed"
  /\ lastDispatch.frame.kind = "object"
  /\ Len(lastDispatch.invoked) = 2

(***************************************************************************)
(* Fixed-point arithmetic.                                                 *)
(***************************************************************************)
Scale == 10 ^ 3                       \* one unit, in thousandths

Abs(a) == IF a < 0 THEN -a ELSE a
\* a / b, rounded toward zero
Trunc(a, b) == IF a >= 0 THEN a \div b ELSE -((-a) \div b)

\* body(v) for the value v of e, with e evaluated once
Bind(e, body(_)) == CHOOSE r \in {body(v) : v \in {e}} : TRUE

RECURSIVE SqrtSearch(_, _, _)
SqrtSearch(n, lo, hi) ==
  IF lo >= hi THEN lo
  ELSE Bind((lo + hi + 1) \div 2,
            LAMBDA mid : IF mid * mid <= n THEN SqrtSearch(n, mid, hi)
                         ELSE SqrtSearch(n, lo, mid - 1))
\* Math.sqrt of an integer, rounded down
ISqrt(n) == SqrtSearch(n, 0, Min(n, 46340))
\* Math.sqrt(a * a + b * b)
Hypot(a, b) == ISqrt(a * a + b * b)
\* Math.sqrt(a * a + b * b) > c, exactly
Longer(a, b, c) == c < 0 \/ a * a + b * b > c * c

\* Math.sin and Math.cos, in thousandths, at the angles (milliradians) the model uses
Angles == {0, 642, 1572, 3141}
Sin(r) == CASE r = 0 -> 0 [] r = 642 -> 599 [] r = 1572 -> 1000 [] r = 3141 -> 1
Cos(r) == CASE r = 0 -> 1000 [] r = 642 -> 801 [] r = 1572 -> -1 [] r = 3141 -> -1000

(***************************************************************************)
(* InputManager.                                                           *)
(***************************************************************************)
ACCEL == 22
TURN_ACCEL == 30
DECEL == 26
DEADZONE == 10                        \* 0.01

\* The devices' side of an event: one more press counted for the intents it stands for
Pressed(l, types) ==
  [l EXCEPT !.pressed = [t \in IntentTypes |-> IF t \in types THEN @[t] + 1 ELSE @[t]]]

\* keydown
KeyDown(code, repeat) ==
  /\ input' = [input EXCEPT
       !.pendingJump = IF code = "Space" /\ ~repeat THEN TRUE ELSE @,
       !.pendingDodge = IF code \in {"ShiftLeft", "ShiftRight"} /\ ~repeat THEN TRUE ELSE @,
       !.keys = @ \cup {code}]
  /\ ledger' = Pressed(ledger, (IF code = "Space" /\ ~repeat THEN {"jump"} ELSE {})
                                 \cup (IF code \in {"ShiftLeft", "ShiftRight"} /\ ~repeat
                                       THEN {"dodge"} ELSE {}))
  /\ UNCHANGED <<linkVars, dispatchVars, sendVars, gameVars>>

\* keyup
KeyUp(code) ==
  /\ input' = [input EXCEPT !.keys = @ \ {code}]
  /\ UNCHANGED <<linkVars, dispatchVars, sendVars, gameVars, ledger>>

\* mousemove: 0.003 rad per pixel while the pointer is locked
MouseMove(movementX) ==
  /\ input' = IF ~input.isPointerLocked THEN input
              ELSE [input EXCEPT !.rotationY = @ - movementX * 3]
  /\ UNCHANGED <<linkVars, dispatchVars, sendVars, gameVars, ledger>>

\* mousedown: without pointer lock the click only requests the lock
MouseDown(button) ==
  /\ input' = IF ~input.isPointerLocked THEN input
              ELSE IF button = 0 THEN [input EXCEPT !.pendingAttack = TRUE]
              ELSE IF button = 2 THEN [input EXCEPT !.isBlocking = TRUE,
                                                    !.pendingBlockStart = TRUE]
              ELSE input
  /\ ledger' = Pressed(ledger, IF button = 0 THEN {"attack"}
                                ELSE IF button = 2 THEN {"blockStart"} ELSE {})
  /\ UNCHANGED <<linkVars, dispatchVars, sendVars, gameVars>>

\* mouseup
MouseUp(button) ==
  /\ input' = IF button = 2 /\ input.isBlocking
              THEN [input EXCEPT !.isBlocking = FALSE, !.pendingBlockEnd = TRUE]
              ELSE input
  /\ ledger' = Pressed(ledger, IF button = 2 THEN {"blockEnd"} ELSE {})
  /\ UNCHANGED <<linkVars, dispatchVars, sendVars, gameVars>>

\* pointerlockchange
PointerLockChange(locked) ==
  /\ input' = [input EXCEPT !.isPointerLocked = locked]
  /\ UNCHANGED <<linkVars, dispatchVars, sendVars, gameVars, ledger>>

Axis(keys, plusKeys, minusKeys) ==
  (IF keys \cap plusKeys # {} THEN Scale ELSE 0) - (IF keys \cap minusKeys # {} THEN Scale ELSE 0)

\* InputManager.update(dt): the movement vector approaches the key target
InputUpdate(in, dt) ==
  LET tf0 == Axis(in.keys, {"KeyW", "ArrowUp"}, {"KeyS", "ArrowDown"})
      tr0 == Axis(in.keys, {"KeyD", "ArrowRight"}, {"KeyA", "ArrowLeft"})
      targetLen == Hypot(tf0, tr0)
      tf == IF Longer(tf0, tr0, Scale) THEN Trunc(tf0 * Scale, targetLen) ELSE tf0
      tr == IF Longer(tf0, tr0, Scale) THEN Trunc(tr0 * Scale, targetLen) ELSE tr0
      desiredDot == in.moveForward * tf + in.moveRight * tr
      accel == IF Longer(tf0, tr0, 0) THEN (IF desiredDot < 0 THEN TURN_ACCEL ELSE ACCEL)
               ELSE DECEL
      dx == tr - in.moveRight
      dy == tf - in.moveForward
      dist == Hypot(dx, dy)
      maxStep == accel * dt
      step == Longer(dx, dy, maxStep) /\ Longer(dx, dy, 0)
      mr == IF step THEN in.moveRight + Trunc(dx * maxStep, dist) ELSE tr
      mf == IF step THEN in.moveForward + Trunc(dy * maxStep, dist) ELSE tf
  IN [in EXCEPT !.moveForward = IF Abs(mf) < DEADZONE THEN 0 ELSE mf,
                !.moveRight = IF Abs(mr) < DEADZONE THEN 0 ELSE mr]

\* consumeAttack, consumeBlockStart, consumeBlockEnd, consumeJump, consumeDodge:
\* the value returned, and the object afterwards
Consumed(in, flag) == in[flag]
AfterConsumeKeepsFlag(in, flag) == in
AfterConsume(in, flag) == [in EXCEPT ![flag] = FALSE]

(***************************************************************************)
(* Game: prediction arithmetic.                                            *)
(***************************************************************************)
PLAYER_SPEED == 8
GRAVITY == 16
JUMP_VELOCITY == 8500                 \* 8.5
JUMP_EPSILON == 1                     \* 0.001
MAX_PENDING == 120

CanMoveUnlessAttacking(action) == action # "attacking"

\* canMove: the action is not a commit action
CanMove(action) == action # "attacking" /\ action # "dodging"
\* speedMul, in hundredths
SpeedMul(action) == IF action = "blocking" THEN 55 ELSE 100

DirectionForwardPlusZ(forward, right, rotation) ==
  LET dx == Trunc(right * Cos(rotation) - forward * Sin(rotation), Scale)
      dz == Trunc(right * Sin(rotation) + forward * Cos(rotation), Scale)
      len == Hypot(dx, dz)
  IN IF Longer(dx, dz, Scale) THEN <<Trunc(dx * Scale, len), Trunc(dz * Scale, len)>>
     ELSE <<dx, dz>>

\* (dx, dz): the movement vector turned by the facing, cut to length 1
Direction(forward, right, rotation) ==
  LET dx == Trunc(right * Cos(rotation) - forward * Sin(rotation), Scale)
      dz == Trunc(right * Sin(rotation) - forward * Cos(rotation), Scale)
      len == Hypot(dx, dz)
  IN IF Longer(dx, dz, Scale) THEN <<Trunc(dx * Scale, len), Trunc(dz * Scale, len)>>
     ELSE <<dx, dz>>

\* d * PLAYER_SPEED * speedMul * dt (dt in ms)
Displacement(d, action, dt) == Trunc(d * PLAYER_SPEED * SpeedMul(action) * dt, 100 * 1000)

\* if (dist > arenaRadius - 1) scale the position back onto the bound
ClampArena(x, z, radius) ==
  LET dist == Hypot(x, z)
      limit == radius - Scale
  IN IF Longer(x, z, limit)
     THEN (IF dist = 0 THEN <<x, z>> ELSE <<Trunc(x * limit, dist), Trunc(z * limit, dist)>>)
     ELSE <<x, z>>

\* One movement step from (x, z): translate, then clamp
MoveStep(x, z, forward, right, rotation, action, dt, radius) ==
  LET dir == Direction(forward, right, rotation)
  IN ClampArena(x + Displacement(dir[1], action, dt), z + Displacement(dir[2], action, dt),
                radius)

\* Game.update: client-side XZ prediction
PredictXZ(x, z, forward, right, rotation, action, dt, radius) ==
  IF CanMove(action) /\ (forward # 0 \/ right # 0)
  THEN MoveStep(x, z, forward, right, rotation, action, dt, radius)
  ELSE <<x, z>>

\* Game.update: client-side Y prediction, as <<y, yVel>>
PredictY(y, yVel, dt) ==
  IF y > 0 \/ yVel > 0
  THEN LET v == yVel - Trunc(GRAVITY * Scale * dt, 1000)
           y1 == y + Trunc(v * dt, 1000)
       IN IF y1 <= 0 THEN <<0, 0>> ELSE <<y1, v>>
  ELSE <<y, yVel>>

TrimmedFromFront(q) == IF Len(q) > MAX_PENDING THEN SubSeq(q, 1, MAX_PENDING) ELSE q

JumpInAir(y, yVel, jump) ==
  IF jump THEN <<IF y <= JUMP_EPSILON THEN JUMP_EPSILON ELSE y, JUMP_VELOCITY>> ELSE <<y, yVel>>

JumpKeepsHeight(y, yVel, jump) ==
  IF jump /\ y <= JUMP_EPSILON THEN <<y, JUMP_VELOCITY>> ELSE <<y, yVel>>

\* Game.update: client-side jump prediction, as <<y, yVel>>; jump says whether
\* consumeJump() returned true
JumpPrediction(y, yVel, jump) ==
  IF jump /\ y <= JUMP_EPSILON THEN <<JUMP_EPSILON, JUMP_VELOCITY>> ELSE <<y, yVel>>

\* Game.update: the queue after push and trim to the last MAX_PENDING records
Trimmed(q) == IF Len(q) > MAX_PENDING THEN SubSeq(q, Len(q) - MAX_PENDING + 1, Len(q)) ELSE q

AcksThrough(seq, lastSeq) == seq >= lastSeq

\* reconcileWithServer: is the record with this seq still unacknowledged?
Unacked(seq, lastSeq) == seq > lastSeq

RemainingExceptNewest(q, lastSeq) ==
  SelectSeq(q, LAMBDA r : Unacked(r.seq, lastSeq) /\ r.seq # q[Len(q)].seq)

\* reconcileWithServer: pendingInputs.filter((i) => i.seq > lastProcessedSeq)
Remaining(q, lastSeq) == SelectSeq(q, LAMBDA r : Unacked(r.seq, lastSeq))

RECURSIVE ReplayCurrentInput(_, _, _, _, _, _)
ReplayCurrentInput(q, x, z, action, radius, done) ==
  IF q = <<>> THEN [x |-> x, z |-> z, replayed |-> done]
  ELSE Bind(MoveStep(x, z, -input.moveForward, -input.moveRight, input.rotationY, action,
                     Head(q).dt, radius),
            LAMBDA p : ReplayCurrentInput(Tail(q), p[1], p[2], action, radius,
                                          Append(done, Head(q).seq)))

\* reconcileWithServer: the for loop over the remaining records, from (x, z); the
\* result is the position and the seqs replayed so far, in the order replayed
RECURSIVE Replay(_, _, _, _, _, _)
Replay(q, x, z, action, radius, done) ==
  IF q = <<>> THEN [x |-> x, z |-> z, replayed |-> done]
  ELSE Bind(MoveStep(x, z, Head(q).forward, Head(q).right, Head(q).rotation, action,
                     Head(q).dt, radius),
            LAMBDA p : Replay(Tail(q), p[1], p[2], action, radius, Append(done, Head(q).seq)))

ReplayedBackwards(q) == [i \in 1..Len(q) |-> q[Len(q) + 1 - i]]

\* for (const input of this.pendingInputs): the records in iteration order
ReplayedRecords(q) == q

ReconcileOnTop(q, y, yVel, radius, snap) ==
  Bind(Remaining(q, snap.lastSeq), LAMBDA rest :
    Bind(IF CanMove(snap.action)
         THEN Replay(rest, predictedX, predictedZ, snap.action, radius, <<>>)
         ELSE [x |-> snap.x, z |-> snap.z, replayed |-> <<>>],
         LAMBDA rp : [queue |-> rest, x |-> rp.x, y |-> IF yVel = 0 THEN snap.y ELSE y,
                      z |-> rp.z, replayed |-> rp.replayed]))

ReconcileMerged(q, y, yVel, radius, snap) ==
  Bind(Remaining(q, snap.lastSeq), LAMBDA rest :
    Bind(IF CanMove(snap.action)
         THEN Replay(ReplayedRecords(rest), snap.x, snap.z, snap.action, radius, <<>>)
         ELSE [x |-> snap.x, z |-> snap.z, replayed |-> <<>>],
         LAMBDA rp : [queue |-> rest, x |-> Trunc(rp.x + predictedX, 2),
                      y |-> IF yVel = 0 THEN snap.y ELSE y,
                      z |-> Trunc(rp.z + predictedZ, 2), replayed |-> rp.replayed]))

ReconcileSnapsY(q, y, yVel, radius, snap) ==
  Bind(Remaining(q, snap.lastSeq), LAMBDA rest :
    Bind(IF CanMove(snap.action)
         THEN Replay(ReplayedRecords(rest), snap.x, snap.z, snap.action, radius, <<>>)
         ELSE [x |-> snap.x, z |-> snap.z, replayed |-> <<>>],
         LAMBDA rp : [queue |-> rest, x |-> rp.x, y |-> snap.y,
                      z |-> rp.z, replayed |-> rp.replayed]))

\* reconcileWithServer(serverState): queue, position and the seqs replayed
Reconcile(q, y, yVel, radius, snap) ==
  Bind(Remaining(q, snap.lastSeq), LAMBDA rest :
    Bind(IF CanMove(snap.action)
         THEN Replay(ReplayedRecords(rest), snap.x, snap.z, snap.action, radius, <<>>)
         ELSE [x |-> snap.x, z |-> snap.z, replayed |-> <<>>],
         LAMBDA rp : [queue |-> rest, x |-> rp.x, y |-> IF yVel = 0 THEN snap.y ELSE y,
                      z |-> rp.z, replayed |-> rp.replayed]))

Seqs(q) == [i \in 1..Len(q) |-> q[i].seq]

(***************************************************************************)
(* Game: maps, inbound handlers and the frame tick.                        *)
(***************************************************************************)
\* Map.set and Map.delete
Put(m, k, v) == [i \in DOMAIN m \cup {k} |-> IF i = k THEN v ELSE m[i]]
Drop(m, k) == [i \in DOMAIN m \ {k} |-> m[i]]

\* The tags Game.setupNetworkHandlers registers, one callback each
GameTags == {"welcome", "playerJoined", "playerLeft", "state", "hit", "kill", "respawn", "chat"}
GameHandlers == [t \in GameTags |-> <<"Game">>]

\* addPlayerEntity(ps): an entity is (isLocal); its mesh and animation are left out
AddPlayerEntity(pl, ps, me) ==
  IF ps.id \in DOMAIN pl THEN pl ELSE Put(pl, ps.id, [isLocal |-> ps.id = me])

RECURSIVE AddAll(_, _, _)
AddAll(pl, list, me) ==
  IF list = <<>> THEN pl ELSE AddAll(AddPlayerEntity(pl, Head(list), me), Tail(list), me)

RECURSIVE SetAll(_, _)
SetAll(m, list) ==
  IF list = <<>> THEN m ELSE SetAll(Put(m, Head(list).id, Head(list)), Tail(list))

Mine(list, me) == SelectSeq(list, LAMBDA ps : ps.id = me)

\* A frame of the given tag arrives on socket s and Network.onmessage hands it to
\* the callback Game registered for the tag
Inbound(s, tag) ==
  /\ s \in DOMAIN sockets
  /\ sockets[s] \in {"OPEN", "CLOSING"}
  /\ Dispatch(handlers, [kind |-> "object", type |-> tag], 0).invoked
       = <<[tag |-> tag, pos |-> 1, h |-> "Game"]>>
  /\ UNCHANGED dispatchVars
  /\ UNCHANGED linkVars
  /\ UNCHANGED sendVars
  /\ UNCHANGED input

\* "welcome"
Welcome(s, id, radius, list) ==
  /\ Inbound(s, "welcome")
  /\ myId' = id
  /\ arenaRadius' = radius
  /\ players' = AddAll(players, list, id)
  /\ LET mine == Mine(list, id)
         ps == mine[Len(mine)]
     IN IF mine = <<>> THEN UNCHANGED <<predictedX, predictedY, predictedZ, predictedRotation>>
        ELSE /\ predictedX' = ps.x
             /\ predictedZ' = ps.z
             /\ predictedY' = ps.y
             /\ predictedRotation' = ps.rotation
  /\ lastReconcile' = NoReconcile
  /\ UNCHANGED <<serverStates, predictedYVel, pendingInputs, inputSeq, lastServerAction,
                 ledger>>

\* "playerJoined"
PlayerJoined(s, ps) ==
  /\ Inbound(s, "playerJoined")
  /\ players' = AddPlayerEntity(players, ps, myId)
  /\ lastReconcile' = NoReconcile
  /\ UNCHANGED <<myId, serverStates, arenaRadius, poseVars, pendingInputs, inputSeq,
                 lastServerAction, ledger>>

\* "playerLeft": removePlayerEntity(msg.id)
PlayerLeft(s, id) ==
  /\ Inbound(s, "playerLeft")
  /\ players' = Drop(players, id)
  /\ serverStates' = Drop(serverStates, id)
  /\ lastReconcile' = NoReconcile
  /\ UNCHANGED <<myId, arenaRadius, poseVars, pendingInputs, inputSeq, lastServerAction,
                 ledger>>

\* The "state" loop: reconcileWithServer for every entry of the list that is ours,
\* in list order. g is (queue, x, y, z, log), log the observation of the last call.
RECURSIVE ReconcileAll(_, _, _, _)
ReconcileAll(g, yVel, radius, list) ==
  IF list = <<>> THEN g
  ELSE Bind(Reconcile(g.queue, g.y, yVel, radius, Head(list)), LAMBDA r :
         Bind([queue |-> r.queue, x |-> r.x, y |-> r.y, z |-> r.z,
               log |-> [ran |-> TRUE, lastSeq |-> Head(list).lastSeq,
                        action |-> Head(list).action, before |-> g.queue,
                        replayed |-> r.replayed, respawn |-> <<>>, shown |-> <<>>]],
              LAMBDA g1 : ReconcileAll(g1, yVel, radius, Tail(list))))

Range(q) == {q[i] : i \in DOMAIN q}

\* The server's side of a broadcast: for every id tracked (entity or cached
\* snapshot) or listed, the number of consecutive broadcasts that did not list it
Missed(l, tracked, list) ==
  [l EXCEPT !.absent =
     [id \in tracked \cup {ps.id : ps \in Range(list)} |->
        IF id \in {ps.id : ps \in Range(list)} THEN 0
        ELSE IF id \in DOMAIN l.absent THEN Min(l.absent[id] + 1, MaxAbsent) ELSE 1]]

\* "state"
StateMsg(s, list) ==
  /\ Inbound(s, "state")
  /\ serverStates' = SetAll(serverStates, list)
  /\ \E g \in {ReconcileAll([queue |-> pendingInputs, x |-> predictedX, y |-> predictedY,
                               z |-> predictedZ, log |-> NoReconcile],
                              predictedYVel, arenaRadius, Mine(list, myId))} :
       /\ pendingInputs' = g.queue
       /\ predictedX' = g.x
       /\ predictedY' = g.y
       /\ predictedZ' = g.z
       /\ lastReconcile' = g.log
  /\ lastServerAction' = IF Mine(list, myId) = <<>> THEN lastServerAction
                         ELSE Head(Mine(list, myId)).action
  /\ ledger' = Missed(ledger, DOMAIN players \cup DOMAIN serverStates, list)
  /\ UNCHANGED <<myId, players, arenaRadius, predictedRotation, predictedYVel, inputSeq>>

RespawnKeepsQueue(s, id, x, z) ==
  /\ Inbound(s, "respawn")
  /\ IF id = myId
     THEN /\ predictedX' = x
          /\ predictedZ' = z
          /\ predictedY' = 0
          /\ predictedYVel' = 0
          /\ ledger' = [ledger EXCEPT !.respawnSeq = inputSeq]
          /\ UNCHANGED pendingInputs
     ELSE UNCHANGED <<predictedX, predictedZ, predictedY, predictedYVel, pendingInputs,
                      ledger>>
  /\ lastReconcile' = [NoReconcile EXCEPT !.respawn = <<id, x, z>>]
  /\ UNCHANGED <<myId, players, serverStates, arenaRadius, predictedRotation, inputSeq,
                 lastServerAction>>

\* "respawn"
Respawn(s, id, x, z) ==
  /\ Inbound(s, "respawn")
  /\ IF id = myId
     THEN /\ predictedX' = x
          /\ predictedZ' = z
          /\ predictedY' = 0
          /\ predictedYVel' = 0
          /\ pendingInputs' = <<>>
          /\ ledger' = [ledger EXCEPT !.respawnSeq = inputSeq]
     ELSE UNCHANGED <<predictedX, predictedZ, predictedY, predictedYVel, pendingInputs,
                      ledger>>
  /\ lastReconcile' = [NoReconcile EXCEPT !.respawn = <<id, x, z>>]
  /\ UNCHANGED <<myId, players, serverStates, arenaRadius, predictedRotation, inputSeq,
                 lastServerAction>>

\* The intents of the frame, in the order Game.update consumes them, with the tag
\* each one sends
Intents ==
  <<[flag |-> "pendingAttack", type |-> "attack"],
    [flag |-> "pendingBlockStart", type |-> "blockStart"],
    [flag |-> "pendingBlockEnd", type |-> "blockEnd"],
    [flag |-> "pendingJump", type |-> "jump"],
    [flag |-> "pendingDodge", type |-> "dodge"]>>

\* if (this.input.consumeX()) this.network.send({ type: X }), for every intent
RECURSIVE SendIntents(_, _, _, _)
SendIntents(o, in, rs, todo) ==
  IF todo = <<>> THEN o
  ELSE Bind(IF Consumed(in, Head(todo).flag) THEN NetSend(o, Msg(Head(todo).type), rs) ELSE o,
            LAMBDA o1 : SendIntents(o1, in, rs, Tail(todo)))

RECURSIVE ConsumeAll(_, _)
ConsumeAll(in, todo) ==
  IF todo = <<>> THEN in ELSE ConsumeAll(AfterConsume(in, Head(todo).flag), Tail(todo))

NextSeqFromQueue(n) == Len(pendingInputs) + 1

\* this.inputSeq++
NextSeq(n) == n + 1

\* Game.update, the part under if (this.myId), for the input object in as
\* input.update(rawDt) left it: the next values of the pose, the counter, the queue
\* and the input object, the record pushed and the intents consumed
Predicted(in, rawDt) ==
  LET rotation == in.rotationY
      forward == -in.moveForward
      right == -in.moveRight
      rec == [seq |-> NextSeq(inputSeq), forward |-> forward, right |-> right,
              rotation |-> rotation, dt |-> rawDt]
  IN Bind(PredictXZ(predictedX, predictedZ, forward, right, rotation, lastServerAction,
                    rawDt, arenaRadius), LAMBDA xz :
     Bind(PredictY(predictedY, predictedYVel, rawDt), LAMBDA yy :
     Bind(JumpPrediction(yy[1], yy[2], Consumed(in, "pendingJump")), LAMBDA jp :
       [x |-> xz[1], z |-> xz[2],
        y |-> jp[1],
        yVel |-> jp[2],
        rotation |-> rotation,
        seq |-> NextSeq(inputSeq),
        queue |-> Trimmed(Append(pendingInputs, rec)),
        input |-> ConsumeAll(in, Intents),
        sent |-> {i.type : i \in {j \in Range(Intents) : Consumed(in, j.flag)}},
        rec |-> rec])))

TickHeldWhileClosed(in, rawDt, rs) ==
  Bind(Predicted(in, rawDt), LAMBDA p :
    [x |-> IF rs = "OPEN" THEN p.x ELSE predictedX,
     z |-> IF rs = "OPEN" THEN p.z ELSE predictedZ,
     y |-> p.y, yVel |-> p.yVel, rotation |-> p.rotation, seq |-> p.seq,
     queue |-> p.queue, input |-> p.input, sent |-> p.sent,
     out |-> Bind(NetSendThrottled(Out, p.rec @@ [type |-> "move"], rs, now),
                  LAMBDA o : SendIntents(o, in, rs, Intents))])

\* Game.update, the part under if (this.myId), with the link in ready state rs: the
\* prediction, and the outbound side after sendThrottled(move) and the intents' send
Tick(in, rawDt, rs) ==
  Bind(Predicted(in, rawDt), LAMBDA p :
    [x |-> p.x, z |-> p.z, y |-> p.y, yVel |-> p.yVel, rotation |-> p.rotation,
     seq |-> p.seq, queue |-> p.queue, input |-> p.input, sent |-> p.sent,
     out |-> Bind(NetSendThrottled(Out, p.rec @@ [type |-> "move"], rs, now),
                  LAMBDA o : SendIntents(o, in, rs, Intents))])

SyncEntitiesAddOnly(pl, states, me) ==
  [id \in DOMAIN states \cup DOMAIN pl |->
     IF id \in DOMAIN pl THEN pl[id] ELSE [isLocal |-> id = me]]

\* Game.update: "Update entities" and "Clean up stale entities"
SyncEntities(pl, states, me) ==
  [id \in DOMAIN states |-> IF id \in DOMAIN pl THEN pl[id] ELSE [isLocal |-> id = me]]

HandedAllPredicted(states, me, x, y, z, rotation) ==
  [id \in DOMAIN states |->
     [states[id] EXCEPT !.x = x, !.y = y, !.z = z, !.rotation = rotation]]

HandedAsIdle(states, me, x, y, z, rotation) ==
  [id \in DOMAIN states |->
     IF id = me THEN [states[id] EXCEPT !.x = x, !.y = y, !.z = z, !.rotation = rotation,
                                        !.action = "idle"]
     ELSE states[id]]

\* Game.update: the state entity.updateFromServer receives for every cached
\* snapshot; the local player's carries the predicted position and rotation
Handed(states, me, x, y, z, rotation) ==
  [id \in DOMAIN states |->
     IF id = me THEN [states[id] EXCEPT !.x = x, !.y = y, !.z = z, !.rotation = rotation]
     ELSE states[id]]

HasIdentityAlways(id) == TRUE

\* if (this.myId): the identity is a non-empty string
HasIdentity(id) == id # ""

\* One animation frame: Game.update(dt, rawDt), rawDt in ms
Update(rawDt) ==
  /\ IF HasIdentity(myId)
     THEN \E in \in {InputUpdate(input, rawDt)} : \E t \in {Tick(in, rawDt, ReadyState)} :
            /\ input' = t.input
            /\ predictedX' = t.x
            /\ predictedZ' = t.z
            /\ predictedY' = t.y
            /\ predictedYVel' = t.yVel
            /\ predictedRotation' = t.rotation
            /\ inputSeq' = t.seq
            /\ pendingInputs' = t.queue
            /\ SetOut(t.out)
            /\ ledger' = [ledger EXCEPT !.sent = [ty \in IntentTypes |->
                                                   IF ty \in t.sent THEN @[ty] + 1 ELSE @[ty]]]
     ELSE /\ input' = InputUpdate(input, rawDt)
          /\ UNCHANGED <<poseVars, inputSeq, pendingInputs, ledger>>
          /\ UNCHANGED <<lastSendTime, wire, throttledAt, lastCall>>
  /\ players' = SyncEntities(players, serverStates, myId)
  /\ lastReconcile' = [NoReconcile EXCEPT !.shown = Handed(serverStates, myId, predictedX',
                                                           predictedY', predictedZ',
                                                           predictedRotation')]
  /\ UNCHANGED <<myId, serverStates, arenaRadius, lastServerAction>>
  /\ UNCHANGED now
  /\ UNCHANGED linkVars
  /\ UNCHANGED dispatchVars

(***************************************************************************)
(* Specification of a game session.                                        *)
(***************************************************************************)
MaxSeq == 4

\* After new Game(): new InputManager(), new Network(wsUrl), setupNetworkHandlers()
GameInit ==
  /\ NetworkInit
  /\ handlers = GameHandlers

Me == "me"
Other == "p2"
SessionKeys == {"KeyW"}
FrameTimes == {100}                              \* rawDt, ms
Radii == {3 * Scale}
ServerActions == {"idle", "attacking"}

Snapshot(id, z, action, lastSeq) ==
  [id |-> id, x |-> 0, y |-> 0, z |-> z, rotation |-> 0, action |-> action,
   lastSeq |-> lastSeq, health |-> 100, stamina |-> 100, kills |-> 0, deaths |-> 0]

MySnapshots ==
  {Snapshot(Me, 1600, a, n) : a \in ServerActions, n \in 0..MaxSeq}
OtherSnapshot == Snapshot(Other, 1000, "idle", 0)
StateLists == {<<m>> : m \in MySnapshots}

GameNext ==
  \/ \E s \in 1..MaxSockets : OnOpen(s)
  \/ \E s \in 1..MaxSockets, r \in Radii :
       Welcome(s, Me, r, <<Snapshot(Me, 0, "idle", 0)>>)
  \/ \E s \in 1..MaxSockets, list \in StateLists : StateMsg(s, list)
  \/ \E s \in 1..MaxSockets : Respawn(s, Me, 0, 0)
  \/ \E k \in SessionKeys : KeyDown(k, FALSE)
  \/ \E k \in SessionKeys : KeyUp(k)
  \/ \E dt \in FrameTimes : inputSeq < MaxSeq /\ Update(dt)

GameSpec == GameInit /\ [][GameNext]_vars

(***************************************************************************)
(* Properties of reconciliation.                                           *)
(***************************************************************************)
Ascending(ns) == \A i, j \in 1..Len(ns) : i < j => ns[i] < ns[j]

\* C9: in the state reconcileWithServer(snapshot) leaves, every record of the
\* pending-input queue has a seq greater than snapshot.lastSeq.
C9_QueueAboveAck ==
  lastReconcile.ran =>
    \A i \in 1..Len(pendingInputs) : pendingInputs[i].seq > lastReconcile.lastSeq

\* A reconciliation that dropped some records of a queue and kept others
C9_Witness ==
  /\ lastReconcile.ran
  /\ pendingInputs # <<>>
  /\ Len(pendingInputs) < Len(lastReconcile.before)

\* C10: reconciliation leaves in the queue exactly the records that were pending
\* with seq > lastSeq, in their original order, and when the snapshot's action
\* permits movement it replays each of them once, in ascending seq order.
C10_KeepsAndReplaysUnacked ==
  lastReconcile.ran =>
    /\ pendingInputs
         = SelectSeq(lastReconcile.before, LAMBDA r : r.seq > lastReconcile.lastSeq)
    /\ (lastReconcile.action \notin {"attacking", "dodging"}
          => /\ lastReconcile.replayed = Seqs(pendingInputs)
             /\ Ascending(lastReconcile.replayed))

\* Records 1..4 pending, some of them moving, and a snapshot with lastSeq = 2 whose
\* action permits movement: 3 and 4 stay and are replayed in that order
C10_Witness ==
  /\ lastReconcile.ran
  /\ lastReconcile.action = "idle"
  /\ lastReconcile.lastSeq = 2
  /\ Seqs(lastReconcile.before) = <<1, 2, 3, 4>>
  /\ Seqs(pendingInputs) = <<3, 4>>
  /\ lastReconcile.replayed = <<3, 4>>
  /\ \E i \in 1..Len(pendingInputs) : pendingInputs[i].forward # 0

\* A step in which the "state" handler ran reconcileWithServer
ReconcileStep == lastReconcile'.ran /\ myId \in DOMAIN serverStates'

\* C11: a reconcileWithServer call that directly follows one with the same snapshot
\* (no tick, respawn, welcome or roster message in between) leaves the predicted
\* position (x, y, z) and the pending queue as the first call left them.
C11_ReconcileIdempotent ==
  [][(/\ lastReconcile.ran
      /\ ReconcileStep
      /\ myId \in DOMAIN serverStates
      /\ serverStates'[myId] = serverStates[myId])
       => /\ pendingInputs' = pendingInputs
          /\ predictedX' = predictedX
          /\ predictedY' = predictedY
          /\ predictedZ' = predictedZ]_vars

\* The state a repeated call leaves: the queue was already filtered against the
\* snapshot (nothing more was dropped) and the replay moved away from the baseline
C11_Witness ==
  /\ lastReconcile.ran
  /\ lastReconcile.lastSeq >= 1
  /\ pendingInputs # <<>>
  /\ lastReconcile.before = pendingInputs
  /\ myId \in DOMAIN serverStates
  /\ predictedZ # serverStates[myId].z

(***************************************************************************)
(* Specification of movement: backward key, two frame durations, snapshots *)
(* of every action, inside and outside the arena bound.                    *)
(***************************************************************************)
MaxMoves == 2

MoveKeys == {"KeyS"}
MoveFrameTimes == {50, 100}
MoveActions == {"idle", "blocking", "attacking", "dodging"}

\* PlayerStates of the local player: inside the bound at (0, -0.4), with every
\* action and acknowledgment; outside it at (0, 2.5)
MoveSnapshots ==
  {Snapshot(Me, -400, a, n) : a \in MoveActions, n \in 0..MaxMoves}
    \cup {Snapshot(Me, 2500, a, n) : a \in {"idle", "attacking"}, n \in {0, MaxMoves}}

MoveNext ==
  \/ \E s \in 1..MaxSockets : OnOpen(s)
  \/ \E s \in 1..MaxSockets, r \in Radii :
       Welcome(s, Me, r, <<Snapshot(Me, 0, "idle", 0)>>)
  \/ \E s \in 1..MaxSockets, m \in MoveSnapshots : StateMsg(s, <<m>>)
  \/ \E k \in MoveKeys : KeyDown(k, FALSE)
  \/ \E k \in MoveKeys : KeyUp(k)
  \/ \E dt \in MoveFrameTimes : inputSeq < MaxMoves /\ Update(dt)

MoveSpec == GameInit /\ [][MoveNext]_vars

(***************************************************************************)
(* Properties of movement.                                                 *)
(***************************************************************************)
\* The position the records q lead to from the snapshot's (x, z) under the snapshot's
\* action in an arena of the given radius: a function of these three alone
RECURSIVE FromBaseline(_, _, _, _, _)
FromBaseline(x, z, action, radius, q) ==
  IF q = <<>> THEN <<x, z>>
  ELSE Bind(ClampArena(
              x + Displacement(Direction(Head(q).forward, Head(q).right, Head(q).rotation)[1],
                               action, Head(q).dt),
              z + Displacement(Direction(Head(q).forward, Head(q).right, Head(q).rotation)[2],
                               action, Head(q).dt),
              radius),
            LAMBDA p : FromBaseline(p[1], p[2], action, radius, Tail(q)))

\* C12: the predicted (x, z) a reconciliation leaves is a function of the snapshot
\* (x, z, action, lastSeq), the arena radius and the pending records alone: two runs
\* that agree on these agree on the result, whatever the clock, the frame duration,
\* the input state or the predicted position they start from.
C12_ReplayDeterministic ==
  (lastReconcile.ran /\ myId \in DOMAIN serverStates) =>
    <<predictedX, predictedZ>>
      = IF serverStates[myId].action \in {"attacking", "dodging"}
        THEN <<serverStates[myId].x, serverStates[myId].z>>
        ELSE FromBaseline(serverStates[myId].x, serverStates[myId].z,
                          serverStates[myId].action, arenaRadius, pendingInputs)

\* Two records of different durations replayed while no key is held
C12_Witness ==
  /\ lastReconcile.ran
  /\ Len(lastReconcile.replayed) = 2
  /\ pendingInputs[1].dt # pendingInputs[2].dt
  /\ pendingInputs[1].forward # 0
  /\ input.moveForward = 0
  /\ predictedZ # serverStates[myId].z

\* C13: once a welcome has set the identity, the predicted horizontal position lies
\* within arenaRadius - 1 of the origin: sqrt(x^2 + z^2) <= arenaRadius - 1.
C13_ArenaClamp ==
  myId # "" =>
    /\ arenaRadius - Scale >= 0
    /\ predictedX * predictedX + predictedZ * predictedZ
         <= (arenaRadius - Scale) * (arenaRadius - Scale)

(***************************************************************************)
(* Specification of a session over a failing link: ticks, the clock,       *)
(* closures and reconnects, welcome and respawn.                           *)
(***************************************************************************)
SessionNext ==
  \/ LinkNext
  \/ \E s \in 1..MaxSockets, r \in Radii :
       Welcome(s, Me, r, <<Snapshot(Me, 0, "idle", 0)>>)
  \/ \E s \in 1..MaxSockets : Respawn(s, Me, 0, 0)
  \/ \E dt \in FrameTimes : inputSeq < MaxSeq /\ Update(dt)
  \/ Advance(MIN_SEND_INTERVAL)

SessionSpec == GameInit /\ [][SessionNext]_vars

(***************************************************************************)
(* Properties of the input sequence.                                       *)
(***************************************************************************)
\* The seq values of the move frames on the link, oldest first
MoveSeqs(w) == Seqs([i \in 1..Len(SelectSeq(w, LAMBDA fr : fr.msg.type = "move")) |->
                      SelectSeq(w, LAMBDA fr : fr.msg.type = "move")[i].msg])

\* A step in which Game.update ran with a known identity: it called the network
CallStep == lastCall'.id # lastCall.id

\* C14: the sequence counter never decreases (not at respawn, welcome, closure or
\* reconnect); a tick with a known identity allocates a seq greater than the counter,
\* than every queued record's and than every transmitted move's; and the move frames
\* on the link carry strictly increasing seq values.
C14_SeqStrictlyIncreasing ==
  [][/\ inputSeq' >= inputSeq
     /\ CallStep =>
          /\ inputSeq' > inputSeq
          /\ pendingInputs' # <<>>
          /\ pendingInputs'[Len(pendingInputs')].seq = inputSeq'
          /\ \A i \in 1..Len(pendingInputs) : pendingInputs[i].seq < inputSeq'
          /\ \A i \in 1..Len(MoveSeqs(wire)) : MoveSeqs(wire)[i] < inputSeq'
     /\ Ascending(MoveSeqs(wire'))
     /\ Ascending(Seqs(pendingInputs'))]_vars

\* Moves transmitted before and after a local respawn, the link having failed and
\* been re-established in between
C14_Witness ==
  /\ Len(MoveSeqs(wire)) >= 2
  /\ ledger.respawnSeq >= 1
  /\ MoveSeqs(wire)[1] <= ledger.respawnSeq
  /\ MoveSeqs(wire)[Len(MoveSeqs(wire))] > ledger.respawnSeq
  /\ reconnectDelay > RECONNECT_FLOOR

(***************************************************************************)
(* Specification of a long run of frames without acknowledgement.          *)
(***************************************************************************)
MaxTicks == 122

CapNext ==
  \/ \E s \in 1..MaxSockets : OnOpen(s)
  \/ \E s \in 1..MaxSockets, r \in Radii : Welcome(s, Me, r, <<Snapshot(Me, 0, "idle", 0)>>)
  \/ \E dt \in FrameTimes : inputSeq < MaxTicks /\ Update(dt)

CapSpec == GameInit /\ [][CapNext]_vars

\* C15: after a tick the queue holds at most 120 records: the records it held before
\* followed by the new one, cut to the 120 most recent, in their order.
C15_QueueCapped ==
  [][CallStep =>
       LET full == Append(pendingInputs, pendingInputs'[Len(pendingInputs')])
           kept == Len(pendingInputs')
       IN /\ pendingInputs' # <<>>
          /\ pendingInputs'[kept].seq = inputSeq'
          /\ kept = Min(Len(full), 120)
          /\ \A i \in 1..kept : pendingInputs'[i] = full[Len(full) - kept + i]]_vars

\* The queue is full and its oldest records have been dropped
C15_Witness ==
  /\ Len(pendingInputs) = 120
  /\ pendingInputs[1].seq > 1
  /\ pendingInputs[120].seq = inputSeq

(***************************************************************************)
(* Specification of respawns during play.                                  *)
(***************************************************************************)
MaxPresses == 2

\* The device events counted so far leave room for one more press
PressesLeft == \A t \in IntentTypes : ledger.pressed[t] < MaxPresses

RespawnKeys == {"KeyW", "Space"}
RespawnPoints == {<<500, -700>>}
RespawnSnapshots == {Snapshot(Me, 1600, "idle", n) : n \in 0..MaxMoves}

RespawnNext ==
  \/ \E s \in 1..MaxSockets : OnOpen(s)
  \/ \E s \in 1..MaxSockets, r \in Radii : Welcome(s, Me, r, <<Snapshot(Me, 0, "idle", 0)>>)
  \/ \E s \in 1..MaxSockets, m \in RespawnSnapshots : StateMsg(s, <<m>>)
  \/ \E s \in 1..MaxSockets, id \in {Me, Other}, p \in RespawnPoints : Respawn(s, id, p[1], p[2])
  \/ \E k \in RespawnKeys : PressesLeft /\ KeyDown(k, FALSE)
  \/ \E k \in RespawnKeys : KeyUp(k)
  \/ \E dt \in FrameTimes : inputSeq < MaxMoves /\ Update(dt)

RespawnSpec == GameInit /\ [][RespawnNext]_vars

\* A step in which the respawn handler ran
RespawnStep == lastReconcile'.respawn # <<>> /\ lastReconcile' # lastReconcile

\* C16: a respawn message for the local identity empties the queue and sets the
\* predicted pose to the respawn position, on the ground, with zero vertical velocity,
\* in one step; a respawn for another identity leaves pose, queue and counter as they
\* were; and no reconciliation replays (nor does the queue hold) a record created
\* before the last local respawn.
C16_RespawnResets ==
  /\ [][RespawnStep =>
          IF lastReconcile'.respawn[1] = myId
          THEN /\ pendingInputs' = <<>>
               /\ predictedX' = lastReconcile'.respawn[2]
               /\ predictedZ' = lastReconcile'.respawn[3]
               /\ predictedY' = 0
               /\ predictedYVel' = 0
               /\ inputSeq' = inputSeq
          ELSE /\ UNCHANGED <<predictedX, predictedY, predictedZ, predictedYVel>>
               /\ UNCHANGED <<predictedRotation, pendingInputs, inputSeq, lastServerAction>>]_vars
  /\ [](\A i \in 1..Len(pendingInputs) : pendingInputs[i].seq > ledger.respawnSeq)
  /\ [](lastReconcile.ran =>
          \A i \in 1..Len(lastReconcile.replayed) :
            lastReconcile.replayed[i] > ledger.respawnSeq)

\* A reconciliation after a local respawn whose snapshot acknowledges less than what
\* had been created before the respawn, and which replays a record created after it
C16_Witness ==
  /\ lastReconcile.ran
  /\ ledger.respawnSeq >= 1
  /\ lastReconcile.lastSeq < ledger.respawnSeq
  /\ lastReconcile.replayed = <<ledger.respawnSeq + 1>>

(***************************************************************************)
(* Properties of the translation lock.                                     *)
(***************************************************************************)
CommitActions == {"attacking", "dodging"}

\* C17: a tick made while the last server action is attacking or dodging leaves
\* predicted (x, z) as it was, whatever the input; a reconciliation whose snapshot
\* action is attacking or dodging puts predicted (x, z) on the snapshot's (x, z),
\* replays nothing and keeps queued exactly the records above lastSeq.
C17_CommitLocksTranslation ==
  /\ [][(CallStep /\ lastServerAction \in CommitActions)
          => /\ predictedX' = predictedX
             /\ predictedZ' = predictedZ]_vars
  /\ []((lastReconcile.ran /\ lastReconcile.action \in CommitActions
           /\ myId \in DOMAIN serverStates)
          => /\ predictedX = serverStates[myId].x
             /\ predictedZ = serverStates[myId].z
             /\ lastReconcile.replayed = <<>>
             /\ pendingInputs
                  = SelectSeq(lastReconcile.before, LAMBDA r : r.seq > lastReconcile.lastSeq))

\* A tick with a movement input made during a dodge, right after a reconciliation
\* put the position on the snapshot and kept a record queued
C17_Witness ==
  /\ ~lastReconcile.ran
  /\ lastServerAction = "dodging"
  /\ Len(pendingInputs) >= 2
  /\ pendingInputs[Len(pendingInputs)].seq = inputSeq
  /\ pendingInputs[Len(pendingInputs)].forward # 0
  /\ pendingInputs[1].forward # 0
  /\ myId \in DOMAIN serverStates
  /\ serverStates[myId].action = "dodging"
  /\ predictedX = serverStates[myId].x
  /\ predictedZ = serverStates[myId].z

(***************************************************************************)
(* Specification of jumping, with the link open or not.                    *)
(***************************************************************************)
MaxFrames == 13
JumpFrameTimes == {100}           \* rawDt = min(clock delta, 0.1 s)

JumpNext ==
  \/ \E s \in 1..MaxSockets : OnOpen(s)
  \/ \E s \in 1..MaxSockets : OnClose(s, FALSE)
  \/ \E s \in 1..MaxSockets, r \in Radii : Welcome(s, Me, r, <<Snapshot(Me, 0, "idle", 0)>>)
  \/ \E repeat \in BOOLEAN : PressesLeft /\ KeyDown("Space", repeat)
  \/ KeyUp("Space")
  \/ \E dt \in JumpFrameTimes : inputSeq < MaxFrames /\ Update(dt)

JumpSpec == GameInit /\ [][JumpNext]_vars

\* A tick with a known identity that finds a jump pressed since the last tick
JumpTick == CallStep /\ input.pendingJump

\* C18 as stated: a jump pressed while predicted y <= 0.001, the identity known, gives
\* vertical velocity 8.5 and y above ground at the end of the next tick.
C18_JumpWhenGrounded ==
  [][(JumpTick /\ predictedY <= JUMP_EPSILON)
       => /\ predictedYVel' = JUMP_VELOCITY
          /\ predictedY' > 0]_vars

\* C18: a jump pressed while the local player rests on the ground (predicted y <= 0.001
\* and no upward vertical velocity), the identity known, gives vertical velocity 8.5
\* and y above ground at the end of the next tick, with no snapshot needed and whether
\* or not the link is open.
C18_JumpWhenAtRest ==
  [][(JumpTick /\ predictedY <= JUMP_EPSILON /\ predictedYVel <= 0)
       => /\ predictedYVel' = JUMP_VELOCITY
          /\ predictedY' > 0]_vars

\* The tick after a jump pressed on the ground while the link is closed and no
\* snapshot has ever arrived
C18_Witness ==
  /\ predictedYVel = JUMP_VELOCITY
  /\ predictedY = JUMP_EPSILON
  /\ ~input.pendingJump
  /\ ledger.sent["jump"] = 1
  /\ ReadyState # "OPEN"
  /\ \A i \in 1..Len(wire) : wire[i].msg.type # "jump"
  /\ DOMAIN serverStates = {}

(***************************************************************************)
(* Properties of one predicted step.                                       *)
(***************************************************************************)
\* The record the tick of this step has pushed
NewRecord == pendingInputs'[Len(pendingInputs')]

\* The distance a full forward input covers in 0.1 s under the action, in thousandths
StepLength(action) == IF action = "blocking" THEN 440 ELSE 800

\* C19: a tick whose record is {forward: 1, right: 0}, facing 0, of 0.1 s, under an
\* action other than attacking and dodging, moves predicted z by exactly -0.8 (by
\* 0.55 times that, -0.44, when blocking) and leaves predicted x unchanged, provided
\* the position reached is inside the arena bound.
C19_ForwardStep ==
  [][(/\ CallStep
      /\ NewRecord.forward = Scale /\ NewRecord.right = 0
      /\ NewRecord.rotation = 0 /\ NewRecord.dt = 100
      /\ lastServerAction \notin CommitActions
      /\ ~Longer(predictedX, predictedZ - StepLength(lastServerAction), arenaRadius - Scale))
       => /\ predictedZ' = predictedZ - StepLength(lastServerAction)
          /\ predictedX' = predictedX]_vars

\* The position after one such tick made while blocking from the snapshot position
C19_Witness ==
  /\ ~lastReconcile.ran
  /\ lastServerAction = "blocking"
  /\ pendingInputs # <<>>
  /\ pendingInputs[Len(pendingInputs)].seq = inputSeq
  /\ pendingInputs[Len(pendingInputs)].forward = Scale
  /\ pendingInputs[Len(pendingInputs)].dt = 100
  /\ myId \in DOMAIN serverStates
  /\ Len(pendingInputs) = 1
  /\ predictedZ = serverStates[myId].z - 440
  /\ predictedX = serverStates[myId].x

(***************************************************************************)
(* Specification of the one-shot intents.                                  *)
(***************************************************************************)
MaxEvents == 4

\* The device events counted so far, over all intents, leave room for one more
EventsLeft ==
  ledger.pressed["attack"] + ledger.pressed["blockStart"] + ledger.pressed["blockEnd"]
    + ledger.pressed["jump"] + ledger.pressed["dodge"] < MaxEvents

IntentKeys == {"Space", "ShiftLeft"}
Buttons == {0, 2}

IntentNext ==
  \/ \E s \in 1..MaxSockets : OnOpen(s)
  \/ \E s \in 1..MaxSockets : OnClose(s, FALSE)
  \/ \E s \in 1..MaxSockets, r \in Radii : Welcome(s, Me, r, <<Snapshot(Me, 0, "idle", 0)>>)
  \/ \E locked \in BOOLEAN : PointerLockChange(locked)
  \/ \E b \in Buttons : EventsLeft /\ MouseDown(b)
  \/ \E b \in Buttons : EventsLeft /\ MouseUp(b)
  \/ \E k \in IntentKeys, repeat \in BOOLEAN : EventsLeft /\ KeyDown(k, repeat)
  \/ \E dt \in FrameTimes : inputSeq < MaxMoves /\ Update(dt)

IntentSpec == GameInit /\ [][IntentNext]_vars

\* The number of frames of the type on the link
OnWire(w, type) == Cardinality({i \in 1..Len(w) : w[i].msg.type = type})

\* C20: for each one-shot intent, the messages of its type handed to the network,
\* and so the frames of its type on the link, are at most as many as the presses;
\* every such frame was produced by send, never by sendThrottled; and a tick that
\* finds the intent pending while the link is open puts exactly one frame of its
\* type on the link and clears the intent, whether or not the move was throttled.
C20_IntentsOncePerPress ==
  /\ [](\A t \in IntentTypes :
          /\ ledger.sent[t] <= ledger.pressed[t]
          /\ OnWire(wire, t) <= ledger.sent[t])
  /\ [](\A i \in 1..Len(wire) : wire[i].msg.type \in IntentTypes => wire[i].via = "send")
  /\ [][\A n \in 1..Len(Intents) :
          (CallStep /\ input[Intents[n].flag])
            => /\ ~input'[Intents[n].flag]
               /\ ledger'.sent[Intents[n].type] = ledger.sent[Intents[n].type] + 1
               /\ OnWire(wire', Intents[n].type)
                    = OnWire(wire, Intents[n].type) + (IF ReadyState = "OPEN" THEN 1 ELSE 0)]_vars

\* Two attack presses answered by one attack frame, a block started and ended, and
\* the intents of a frame on the link although its move was held back by the throttle
C20_Witness ==
  /\ ledger.pressed["attack"] = 2
  /\ ledger.sent["attack"] = 1
  /\ OnWire(wire, "attack") = 1
  /\ OnWire(wire, "blockEnd") = 1
  /\ OnWire(wire, "move") < inputSeq
  /\ inputSeq = 2
  /\ wire[Len(wire)].msg.type # "move"
  /\ wire[Len(wire)].id > 2

(***************************************************************************)
(* Specification of the entities tracked during a session.                 *)
(***************************************************************************)
EntityLists ==
  {<<Snapshot(Me, 0, "idle", 0)>>, <<OtherSnapshot>>,
   <<Snapshot(Me, 0, "idle", 0), OtherSnapshot>>}

EntityNext ==
  \/ \E s \in 1..MaxSockets : OnOpen(s)
  \/ \E s \in 1..MaxSockets, r \in Radii, list \in EntityLists : Welcome(s, Me, r, list)
  \/ \E s \in 1..MaxSockets : PlayerJoined(s, OtherSnapshot)
  \/ \E s \in 1..MaxSockets : PlayerLeft(s, Other)
  \/ \E s \in 1..MaxSockets, list \in EntityLists : StateMsg(s, list)
  \/ \E dt \in FrameTimes : inputSeq < MaxSeq /\ Update(dt)

EntitySpec == GameInit /\ [][EntityNext]_vars

\* C21: another player's identity that two consecutive state broadcasts did not list
\* has, after the next tick, neither an entity nor a cached snapshot, with no
\* playerLeft needed.
C21_AbsentTornDown ==
  [][CallStep =>
       \A id \in DOMAIN ledger.absent \ {myId} :
         ledger.absent[id] >= 2 => /\ id \notin DOMAIN players'
                                   /\ id \notin DOMAIN serverStates']_vars

(***************************************************************************)
(* Properties of the session before the welcome.                           *)
(***************************************************************************)
\* C22: while no identity is known, no step (a tick in particular) changes the
\* predicted pose, the queue or the sequence counter, nor calls the network; and
\* reconcileWithServer has run only with the identity known.
C22_NoIdentityNoPrediction ==
  /\ [][(myId = "" /\ myId' = "")
          => /\ UNCHANGED <<poseVars, pendingInputs, inputSeq>>
             /\ UNCHANGED <<wire, lastCall, lastSendTime, throttledAt>>
             /\ ~lastReconcile'.ran]_vars
  /\ [](lastReconcile.ran => myId # "")

\* Ticks have run with a key held, and a state broadcast has arrived, before any
\* welcome
C22_Witness ==
  /\ myId = ""
  /\ input.moveForward # 0
  /\ DOMAIN serverStates # {}
  /\ DOMAIN players # {}
  /\ inputSeq = 0
  /\ ReadyState = "OPEN"

(***************************************************************************)
(* Specification of turning: mouse look against the reported rotation.     *)
(***************************************************************************)
TurnMoves == {-524, -214, 214, 524}           \* movementX, pixels
TurnSnapshots ==
  {[Snapshot(Me, 1600, "idle", n) EXCEPT !.rotation = r] : n \in 0..MaxMoves, r \in {0, 1572}}

TurnNext ==
  \/ \E s \in 1..MaxSockets : OnOpen(s)
  \/ \E s \in 1..MaxSockets, r \in Radii : Welcome(s, Me, r, <<Snapshot(Me, 0, "idle", 0)>>)
  \/ \E s \in 1..MaxSockets, m \in TurnSnapshots : StateMsg(s, <<m>>)
  \/ \E locked \in BOOLEAN : PointerLockChange(locked)
  \/ \E m \in TurnMoves : (input.rotationY - 3 * m) \in Angles /\ MouseMove(m)
  \/ \E dt \in FrameTimes : inputSeq < MaxMoves /\ Update(dt)

TurnSpec == GameInit /\ [][TurnNext]_vars

\* C23: the facing of the local player's state handed to its entity by a frame is
\* the rotation of the latest snapshot of the local player.
C23_RotationFromSnapshot ==
  myId \in DOMAIN lastReconcile.shown
    => lastReconcile.shown[myId].rotation = serverStates[myId].rotation

(***************************************************************************)
(* Specification of the reported status of the local player.               *)
(***************************************************************************)
StatusSnapshots ==
  {[Snapshot(Me, 1600, st[1], n) EXCEPT !.health = st[2], !.stamina = st[3],
                                        !.kills = st[4], !.deaths = st[5]] :
     n \in {0, MaxMoves},
     st \in {<<"idle", 100, 100, 0, 0>>, <<"blocking", 40, 25, 1, 2>>,
             <<"attacking", 40, 30, 1, 2>>}}

StatusNext ==
  \/ \E s \in 1..MaxSockets : OnOpen(s)
  \/ \E s \in 1..MaxSockets, r \in Radii : Welcome(s, Me, r, <<Snapshot(Me, 0, "idle", 0)>>)
  \/ \E s \in 1..MaxSockets, m \in StatusSnapshots : StateMsg(s, <<m>>)
  \/ \E locked \in BOOLEAN : PointerLockChange(locked)
  \/ PressesLeft /\ MouseDown(0)
  \/ \E k \in SessionKeys : KeyDown(k, FALSE)
  \/ \E k \in SessionKeys : KeyUp(k)
  \/ \E dt \in FrameTimes : inputSeq < MaxMoves /\ Update(dt)

StatusSpec == GameInit /\ [][StatusNext]_vars

StatusFields == {"action", "health", "stamina", "kills", "deaths"}

OfflineKeys == {"KeyW", "Space"}

OfflineNext ==
  \/ \E s \in 1..MaxSockets : OnOpen(s)
  \/ \E s \in 1..MaxSockets : OnClose(s, FALSE)
  \/ \E i \in 1..MaxSockets : TimerFire(i)
  \/ \E s \in 1..MaxSockets, r \in Radii : Welcome(s, Me, r, <<Snapshot(Me, 0, "idle", 0)>>)
  \/ \E k \in OfflineKeys : PressesLeft /\ KeyDown(k, FALSE)
  \/ KeyUp("KeyW")
  \/ \E dt \in FrameTimes : inputSeq < MaxMoves /\ Update(dt)

OfflineSpec == GameInit /\ [][OfflineNext]_vars

\* The ready states a tick can meet ("NONE": this.ws is null)
LinkStates == ReadyStates \cup {"NONE"}

\* The part of a tick's result that is prediction state
Prediction(t) == <<t.x, t.y, t.z, t.yVel, t.rotation, t.seq, t.queue, t.input>>

\* C25: in every state with a known identity, the tick computes the same pose,
\* sequence number, queue and input object whatever the ready state of the link; the
\* tick that runs leaves exactly that prediction; and a tick that meets a link that is
\* not open still advances the counter and the queue and puts nothing on the link.
C25_PredictionIgnoresLink ==
  /\ [](myId # ""
          => \A dt \in FrameTimes, rs \in LinkStates :
               Prediction(Tick(InputUpdate(input, dt), dt, rs))
                 = Prediction(Tick(InputUpdate(input, dt), dt, "OPEN")))
  /\ [][CallStep
          => <<predictedX', predictedY', predictedZ', predictedYVel', predictedRotation',
               inputSeq', pendingInputs', input'>>
               = Prediction(Tick(InputUpdate(input, NewRecord.dt), NewRecord.dt, "OPEN"))]_vars
  /\ [][(CallStep /\ ReadyState # "OPEN")
          => /\ wire' = wire
             /\ inputSeq' = inputSeq + 1
             /\ Len(pendingInputs') = Len(pendingInputs) + 1]_vars

\* A tick that moved and jumped the local player while the link was closed
C25_Witness ==
  /\ ReadyState \in {"CLOSED", "NONE", "CONNECTING"}
  /\ myId # ""
  /\ inputSeq >= 1
  /\ pendingInputs[Len(pendingInputs)].forward # 0
  /\ predictedZ # 0
  /\ predictedYVel = JUMP_VELOCITY
  /\ wire = <<>>

(***************************************************************************)
(* Replay against live prediction.                                         *)
(***************************************************************************)
\* Baseline positions: inside the arena bound and outside it
Baselines == {<<0, -400>>, <<0, 2500>>}

\* The position the ticks that sampled the records q lead to from (x, z), every tick
\* under the action tag it was sampled under
RECURSIVE LivePrediction(_, _, _, _, _)
LivePrediction(q, x, z, action, radius) ==
  IF q = <<>> THEN <<x, z>>
  ELSE Bind(PredictXZ(x, z, Head(q).forward, Head(q).right, Head(q).rotation, action,
                      Head(q).dt, radius),
            LAMBDA p : LivePrediction(Tail(q), p[1], p[2], action, radius))

\* The PlayerState of the local player at baseline b with action tag and nothing
\* acknowledged
BaselineSnapshot(b, tag) == [Snapshot(Me, b[2], tag, 0) EXCEPT !.x = b[1]]

\* C26: for every baseline, inside or outside the bound, every queue of records the
\* ticks have produced, every action tag the ticks sampled them under and every action
\* tag of the snapshot, the per-tick prediction run over the records from the baseline
\* ends at the (x, z) that reconciling to the baseline and replaying the records ends at.
C26_ReplayEqualsLive ==
  myId # ""
    => \A b \in Baselines, sampled \in MoveActions, tag \in MoveActions :
         LivePrediction(pendingInputs, b[1], b[2], sampled, arenaRadius)
           = Bind(Reconcile(pendingInputs, predictedY, predictedYVel, arenaRadius,
                            BaselineSnapshot(b, tag)),
                  LAMBDA r : <<r.x, r.z>>)

(***************************************************************************)
(* Specification of reconciliation in the air and on the ground.           *)
(***************************************************************************)
AirKeys == {"KeyW", "Space"}
Heights == {0, 1200}

\* PlayerStates of the local player on the ground and 1.2 above it
AirSnapshots ==
  {[Snapshot(Me, -400, "idle", n) EXCEPT !.y = h] : n \in {0, MaxMoves}, h \in Heights}

AirNext ==
  \/ \E s \in 1..MaxSockets : OnOpen(s)
  \/ \E s \in 1..MaxSockets, r \in Radii : Welcome(s, Me, r, <<Snapshot(Me, 0, "idle", 0)>>)
  \/ \E s \in 1..MaxSockets, m \in AirSnapshots : StateMsg(s, <<m>>)
  \/ \E k \in AirKeys : PressesLeft /\ KeyDown(k, FALSE)
  \/ \E k \in AirKeys : KeyUp(k)
  \/ \E dt \in FrameTimes : inputSeq < MaxMoves /\ Update(dt)

AirSpec == GameInit /\ [][AirNext]_vars

\* C27: a reconciliation leaves the predicted (x, z) that the snapshot's (x, z) and the
\* replay of the remaining records give; it leaves the vertical velocity as it was; and
\* it leaves predicted y equal to the snapshot's y if the vertical velocity was zero
\* when the snapshot arrived, and as it was otherwise.
C27_SnapYAtRest ==
  [][ReconcileStep
       => /\ <<predictedX', predictedZ'>>
               = IF CanMove(serverStates'[myId].action)
                 THEN FromBaseline(serverStates'[myId].x, serverStates'[myId].z,
                                   serverStates'[myId].action, arenaRadius, pendingInputs')
                 ELSE <<serverStates'[myId].x, serverStates'[myId].z>>
          /\ predictedYVel' = predictedYVel
          /\ predictedY' = IF predictedYVel = 0 THEN serverStates'[myId].y
                           ELSE predictedY]_vars

\* A snapshot at height 1.2 reconciled while the player rises from a jump: y kept
C27_Witness ==
  /\ lastReconcile.ran
  /\ myId \in DOMAIN serverStates
  /\ serverStates[myId].y = 1200
  /\ predictedYVel > 0
  /\ predictedY # serverStates[myId].y
  /\ predictedZ = serverStates[myId].z

(***************************************************************************)
(* Specification of the vertical prediction across jumps, reconciliations, *)
(* respawns and welcomes.                                                  *)
(***************************************************************************)
MaxAir == 8            \* ticks: a jump rises for six ticks of 100 ms, then falls

GroundNext ==
  \/ \E s \in 1..MaxSockets : OnOpen(s)
  \/ \E s \in 1..MaxSockets, r \in Radii : Welcome(s, Me, r, <<Snapshot(Me, 0, "idle", 0)>>)
  \/ \E s \in 1..MaxSockets : StateMsg(s, <<Snapshot(Me, 0, "idle", 0)>>)
  \/ \E s \in 1..MaxSockets : Respawn(s, Me, 0, 0)
  \/ PressesLeft /\ KeyDown("Space", FALSE)
  \/ KeyUp("Space")
  \/ \E dt \in JumpFrameTimes : inputSeq < MaxAir /\ Update(dt)

GroundSpec == GameInit /\ [][GroundNext]_vars

\* C28: at the end of every tick with a known identity predicted y is at least 0, and
\* if predicted y is 0 the predicted vertical velocity is 0, whatever jumps,
\* reconciliations, respawns and welcomes came before the tick.
C28_GroundedAtRest ==
  [][CallStep => /\ predictedY' >= 0
                 /\ (predictedY' = 0 => predictedYVel' = 0)]_vars

\* A reconciliation whose snapshot acknowledges every record of the queue it found
FullAck ==
  /\ ReconcileStep
  /\ \A i \in DOMAIN pendingInputs : pendingInputs[i].seq <= serverStates'[myId].lastSeq

\* C29: a reconciliation whose snapshot acknowledges every pending record leaves the
\* queue empty and the predicted (x, z) equal to the snapshot's (x, z), inside the arena
\* bound or outside it, whatever the predicted position was before.
C29_CorrectedNotMerged ==
  [][FullAck => /\ pendingInputs' = <<>>
                /\ predictedX' = serverStates'[myId].x
                /\ predictedZ' = serverStates'[myId].z]_vars

\* Two records, one of them moving, acknowledged by a snapshot at (0, -0.4)
C29_Witness ==
  /\ lastReconcile.ran
  /\ Len(lastReconcile.before) = 2
  /\ lastReconcile.before[1].forward # 0
  /\ lastReconcile.lastSeq >= lastReconcile.before[2].seq
  /\ pendingInputs = <<>>
  /\ myId \in DOMAIN serverStates
  /\ serverStates[myId].z = -400
  /\ predictedZ = -400

(***************************************************************************)
(* Specification of the handler table across reconnects: the handlers are  *)
(* registered while the first connection attempt is under way, that        *)
(* attempt fails, and frames arrive on the links that connect() creates    *)
(* from the reconnect timer.                                               *)
(***************************************************************************)
TableNext ==
  \/ \E tag \in Tags, h \in HandlerIds :
       ReadyState = "CONNECTING" /\ failures = 0 /\ On(tag, h)
  \/ \E s \in 1..MaxSockets : failures >= 1 /\ OnOpen(s)
  \/ \E s \in 1..MaxSockets : OnClose(s, FALSE)
  \/ \E i \in 1..MaxSockets : TimerFire(i)
  \/ \E s \in 1..MaxSockets, f \in Frames, throwAt \in 0..MaxHandlers : OnMessage(s, f, throwAt)

TableSpec == Init /\ [][TableNext]_vars

\* A step in which a link opens, closes or is created
LinkStep == sockets' # sockets \/ timers' # timers \/ ws' # ws

\* A step in which a frame is dispatched
DispatchStep == lastDispatch' # lastDispatch \/ prevDispatch' # prevDispatch

\* C30: every step keeps every tag of the table and keeps its list as a prefix of the
\* new list; a step in which a link opens, closes or is created leaves the table as it
\* is; and a typed frame arriving on a link created by a reconnect is dispatched from
\* the table the registrations made before the reconnect left: its first handler is
\* invoked, the handlers are invoked in table order, and all of them are unless one
\* throws.
C30_TableOutlivesLinks ==
  /\ [][\A t \in DOMAIN handlers :
          /\ t \in DOMAIN handlers'
          /\ Len(handlers'[t]) >= Len(handlers[t])
          /\ SubSeq(handlers'[t], 1, Len(handlers[t])) = handlers[t]]_vars
  /\ [][LinkStep => handlers' = handlers]_vars
  /\ [][(DispatchStep /\ lastDispatch'.frame.kind = "object")
          => /\ handlers' = handlers
             /\ lastDispatch'.registered = Slots(handlers, lastDispatch'.frame.type)
             /\ Len(lastDispatch'.invoked) >= Min(1, Len(lastDispatch'.registered))
             /\ lastDispatch'.invoked
                  = SubSeq(lastDispatch'.registered, 1, Len(lastDispatch'.invoked))
             /\ (~lastDispatch'.threw
                   => lastDispatch'.invoked = lastDispatch'.registered)]_vars

\* Two frames in a row arrived on a link created by a reconnect, and the second
\* reached the two handlers registered for its tag
C30_Witness ==
  /\ ReadyState = "OPEN"
  /\ reconnectDelay = RECONNECT_FLOOR
  /\ lastDispatch.frame.kind = "object"
  /\ Len(lastDispatch.invoked) = 2
  /\ lastDispatch.invoked[1].h # lastDispatch.invoked[2].h
  /\ prevDispatch.kind = "object"

(***************************************************************************)
(* Properties of the entity map.                                           *)
(***************************************************************************)
\* C31: a tick with a known identity ends with an entity for exactly the identities
\* that have a cached snapshot; so does every tick that handed a state to an entity,
\* until the next message; and a step that drops a cached snapshot (playerLeft) drops
\* the entity of that identity with it.
C31_EntitiesFollowSnapshots ==
  /\ [][CallStep => DOMAIN players' = DOMAIN serverStates']_vars
  /\ [](lastReconcile.shown # <<>>
          => /\ DOMAIN players = DOMAIN serverStates
             /\ DOMAIN lastReconcile.shown = DOMAIN serverStates)
  /\ [][\A id \in DOMAIN serverStates :
          id \notin DOMAIN serverStates' => id \notin DOMAIN players']_vars

\* The entity of another player, tracked without a cached snapshot when the last
\* broadcast arrived, is gone after the tick that handed the local player its state
C31_Witness ==
  /\ lastReconcile.shown # <<>>
  /\ myId = Me
  /\ DOMAIN players = {Me}
  /\ Other \in DOMAIN ledger.absent
  /\ Other \notin DOMAIN serverStates

(***************************************************************************)
(* Specification of a session with a remote player: the local player moves *)
(* and turns while broadcasts report the remote player at two positions.   *)
(***************************************************************************)
RemoteLists ==
  {<<Snapshot(Me, -400, "idle", n), Snapshot(Other, z, a, 0)>> :
     n \in {0, MaxMoves}, z \in {1000, 1500}, a \in ServerActions}

RemoteNext ==
  \/ \E s \in 1..MaxSockets : OnOpen(s)
  \/ \E s \in 1..MaxSockets, r \in Radii :
       Welcome(s, Me, r, <<Snapshot(Me, 0, "idle", 0), OtherSnapshot>>)
  \/ \E s \in 1..MaxSockets, list \in RemoteLists : StateMsg(s, list)
  \/ \E k \in SessionKeys : KeyDown(k, FALSE)
  \/ \E k \in SessionKeys : KeyUp(k)
  \/ PointerLockChange(TRUE)
  \/ (input.rotationY + 3 * 214) \in Angles /\ MouseMove(-214)
  \/ \E dt \in FrameTimes : inputSeq < MaxMoves /\ Update(dt)

RemoteSpec == GameInit /\ [][RemoteNext]_vars

\* Poses the local prediction could hold
ProbePoses == {<<0, 0, 0, 0>>, <<700, 1200, -900, 642>>}

\* C32: the state a tick hands to the entity of every identity but the local one is
\* that identity's cached snapshot, field for field, and it is the same whatever the
\* predicted pose of the local player is.
C32_RemoteNotPredicted ==
  /\ [](\A id \in DOMAIN lastReconcile.shown \ {myId} :
          lastReconcile.shown[id] = serverStates[id])
  /\ [](\A id \in DOMAIN serverStates \ {myId} : \A p \in ProbePoses :
          Handed(serverStates, myId, p[1], p[2], p[3], p[4])[id] = serverStates[id])

\* A tick moved and turned the local player and handed the remote entity its snapshot
C32_Witness ==
  /\ myId = Me
  /\ Other \in DOMAIN lastReconcile.shown
  /\ Me \in DOMAIN lastReconcile.shown
  /\ lastReconcile.shown[Me].z # serverStates[Me].z
  /\ lastReconcile.shown[Me].rotation # serverStates[Me].rotation
  /\ pendingInputs # <<>>
  /\ lastReconcile.shown[Other].z = 1500

(***************************************************************************)
(* Specification of diagonal movement under a turned facing, from          *)
(* snapshot positions inside and outside the arena bound.                  *)
(***************************************************************************)
StrideKeys == {"KeyW", "KeyA"}

StrideSnapshots ==
  {Snapshot(Me, z, a, MaxMoves) : z \in {-400, 2500}, a \in {"idle", "blocking"}}

StrideNext ==
  \/ \E s \in 1..MaxSockets : OnOpen(s)
  \/ \E s \in 1..MaxSockets, r \in Radii : Welcome(s, Me, r, <<Snapshot(Me, 0, "idle", 0)>>)
  \/ \E s \in 1..MaxSockets, m \in StrideSnapshots : StateMsg(s, <<m>>)
  \/ \E k \in StrideKeys : KeyDown(k, FALSE)
  \/ \E k \in StrideKeys : KeyUp(k)
  \/ PointerLockChange(TRUE)
  \/ (input.rotationY + 3 * 214) \in Angles /\ MouseMove(-214)
  \/ \E dt \in MoveFrameTimes : inputSeq < MaxMoves /\ Update(dt)

StrideSpec == GameInit /\ [][StrideNext]_vars

\* PLAYER_SPEED * speedMul * dt, in thousandths (dt in ms)
Reach(action, dt) == Trunc(Scale * PLAYER_SPEED * SpeedMul(action) * dt, 100 * 1000)

\* Is (x1, z1) within distance d of (x0, z0)?
Within(x0, z0, x1, z1, d) == ~Longer(x1 - x0, z1 - z0, d)

\* C33: a tick moves the predicted (x, z) by at most PLAYER_SPEED * speedMul * dt, so
\* by at most 0.8; and the movement step of replay moves the position by at most
\* PLAYER_SPEED * speedMul * dt for every queued record, baseline and action.
C33_StepBounded ==
  /\ [][CallStep
          => /\ Within(predictedX, predictedZ, predictedX', predictedZ',
                       Reach(lastServerAction, NewRecord.dt))
             /\ Within(predictedX, predictedZ, predictedX', predictedZ', 800)]_vars
  /\ [](\A i \in DOMAIN pendingInputs, b \in Baselines, a \in {"idle", "blocking"} :
          \E p \in {MoveStep(b[1], b[2], pendingInputs[i].forward, pendingInputs[i].right,
                             pendingInputs[i].rotation, a, pendingInputs[i].dt, arenaRadius)} :
            Within(b[1], b[2], p[1], p[2], Reach(a, pendingInputs[i].dt)))

(***************************************************************************)
(* Specification of the queue over a long run: ticks past the cap, with    *)
(* acknowledgements and respawns arriving early in the run and around the  *)
(* ticks at which the queue is trimmed.                                    *)
(***************************************************************************)
\* The values of the sequence counter at which messages arrive
EventTimes == {1, 2, MAX_PENDING + 1, MAX_PENDING + 2}

\* lastSeq of the snapshots: an early record, the middle of a full queue, the record
\* that fills the queue past its cap
AckPoints == {1, 60, MAX_PENDING + 1}

QueueNext ==
  \/ \E s \in 1..MaxSockets : OnOpen(s)
  \/ \E s \in 1..MaxSockets, r \in Radii :
       myId = "" /\ Welcome(s, Me, r, <<Snapshot(Me, 0, "idle", 0)>>)
  \/ \E s \in 1..MaxSockets, n \in AckPoints :
       inputSeq \in EventTimes /\ StateMsg(s, <<Snapshot(Me, 0, "attacking", n)>>)
  \/ \E s \in 1..MaxSockets : inputSeq \in EventTimes /\ Respawn(s, Me, 0, 0)
  \/ \E dt \in FrameTimes : inputSeq < MaxTicks /\ Update(dt)

QueueSpec == GameInit /\ [][QueueNext]_vars

\* C34: in every state the queue is empty or holds the consecutive seqs that end at
\* the sequence counter, oldest first: strictly increasing, no gap, no duplicate.
C34_QueueContiguous ==
  \A i \in 1..Len(pendingInputs) :
    pendingInputs[i].seq = inputSeq - Len(pendingInputs) + i

\* A queue emptied by a respawn, filled again and trimmed at the cap, then cut by an
\* acknowledgement
C34_Witness ==
  /\ ledger.respawnSeq >= 1
  /\ lastReconcile.ran
  /\ Len(lastReconcile.before) = MAX_PENDING
  /\ lastReconcile.before[1].seq > ledger.respawnSeq + 1
  /\ pendingInputs # <<>>
  /\ Len(pendingInputs) < MAX_PENDING

(***************************************************************************)
(* Specification of the moves on the link: frames that begin 16 ms after   *)
(* page load and follow each other by 0, 8 or 16 ms, over a link that can  *)
(* close and reconnect.                                                    *)
(***************************************************************************)
WireSteps == {8, 16}

WireNext ==
  \/ \E s \in 1..MaxSockets : OnOpen(s)
  \/ \E s \in 1..MaxSockets : OnClose(s, FALSE)
  \/ \E i \in 1..MaxSockets : TimerFire(i)
  \/ \E s \in 1..MaxSockets, r \in Radii : Welcome(s, Me, r, <<Snapshot(Me, 0, "idle", 0)>>)
  \/ \E s \in 1..MaxSockets : StateMsg(s, <<Snapshot(Me, -400, "idle", 0)>>)
  \/ \E k \in SessionKeys : KeyDown(k, FALSE)
  \/ \E dt \in FrameTimes : inputSeq < MaxMoves /\ now >= MIN_SEND_INTERVAL /\ Update(dt)
  \/ \E d \in WireSteps : Advance(d)

WireSpec == GameInit /\ [][WireNext]_vars

\* Is there a move frame on the link with the record's seq, movement, facing and dt?
Transmitted(w, rec) ==
  \E i \in 1..Len(w) : /\ w[i].msg.type = "move"
                       /\ w[i].msg.seq = rec.seq
                       /\ w[i].msg.forward = rec.forward
                       /\ w[i].msg.right = rec.right
                       /\ w[i].msg.rotation = rec.rotation
                       /\ w[i].msg.dt = rec.dt

\* C35: every record held in the queue, and so every record a reconciliation
\* replays, has a move frame with its seq, movement vector, facing and dt on the
\* link.
C35_QueuedWasSent ==
  \A i \in 1..Len(pendingInputs) : Transmitted(wire, pendingInputs[i])

(***************************************************************************)
(* Specification of blocking over a link that stays open.                  *)
(***************************************************************************)
BlockNext ==
  \/ \E s \in 1..MaxSockets : OnOpen(s)
  \/ \E s \in 1..MaxSockets, r \in Radii : Welcome(s, Me, r, <<Snapshot(Me, 0, "idle", 0)>>)
  \/ PointerLockChange(TRUE)
  \/ EventsLeft /\ MouseDown(2)
  \/ EventsLeft /\ MouseUp(2)
  \/ \E dt \in FrameTimes : inputSeq < MaxMoves /\ Update(dt)

BlockSpec == GameInit /\ [][BlockNext]_vars

\* The block frames on the link, oldest first
BlockFrames(w) == SelectSeq(w, LAMBDA fr : fr.msg.type \in {"blockStart", "blockEnd"})

\* The type of the last block frame on the link, blockEnd if there is none (the
\* server starts a player not blocking)
LastBlock(w) ==
  IF BlockFrames(w) = <<>> THEN "blockEnd"
  ELSE BlockFrames(w)[Len(BlockFrames(w))].msg.type

\* C36: at the end of every tick made with a known identity on an open link, the last
\* block frame on the link is blockStart if InputManager's isBlocking is true and
\* blockEnd (or there is none) if it is false.
C36_BlockInStep ==
  [][(CallStep /\ ReadyState = "OPEN")
       => LastBlock(wire') = IF input'.isBlocking THEN "blockStart" ELSE "blockEnd"]_vars

(***************************************************************************)
(* Properties of a throwing handler.                                       *)
(***************************************************************************)
\* C37: when a handler throws during the dispatch of a frame, no exception leaves
\* the message callback, the sockets, the reconnect timers and the backoff delay stay
\* as they are, and every handler registered for the frame's tag is invoked.
C37_ThrowContained ==
  [][(DispatchStep /\ lastDispatch'.threw)
       => /\ ~lastDispatch'.escaped
          /\ UNCHANGED <<sockets, ws, timers, reconnectDelay>>
          /\ lastDispatch'.invoked = lastDispatch'.registered]_vars

(***************************************************************************)
(* Properties of the throttle across link failures.                        *)
(***************************************************************************)
\* C38: a sendThrottled call made while the link is OPEN and at least 16 ms after the
\* last frame that went on the link through sendThrottled puts its frame on the link,
\* whatever calls were dropped in between while the link was not open.
C38_ThrottleDropsNoMore ==
  [][(/\ lastCall'.id # lastCall.id
      /\ lastCall'.op = "sendThrottled"
      /\ ReadyState = "OPEN"
      /\ throttledAt # <<>>
      /\ now - throttledAt[Len(throttledAt)] >= MIN_SEND_INTERVAL)
       => wire' = Append(wire, Frame(lastCall'.msg, lastCall'.id, "sendThrottled"))]_vars

(***************************************************************************)
(* Properties of a jump pressed in the air.                                *)
(***************************************************************************)
\* C39: a tick that consumes a jump while the predicted y its gravity step has just
\* computed is above 0.001 leaves predicted y and vertical velocity as the gravity step
\* computed them, clears the intent and hands the jump message to the network, which
\* puts it on the link if the link is open.
C39_NoDoubleJump ==
  [][(JumpTick /\ PredictY(predictedY, predictedYVel, NewRecord.dt)[1] > JUMP_EPSILON)
       => /\ <<predictedY', predictedYVel'>>
               = PredictY(predictedY, predictedYVel, NewRecord.dt)
          /\ ~input'.pendingJump
          /\ ledger'.sent["jump"] = ledger.sent["jump"] + 1
          /\ OnWire(wire', "jump")
               = OnWire(wire, "jump") + IF ReadyState = "OPEN" THEN 1 ELSE 0]_vars

\* Two jumps were sent on an open link, the second one consumed in the air: the
\* player keeps falling
C39_Witness ==
  /\ ledger.sent["jump"] = 2
  /\ OnWire(wire, "jump") = 2
  /\ ~input.pendingJump
  /\ lastCall.msg.type = "jump"
  /\ predictedY > JUMP_EPSILON
  /\ predictedYVel < 0

====
